---- MODULE Spec2Model ----
(***************************************************************************)
(* picosqlite: the SQLRunner worker thread, the presentation thread that   *)
(* drives it through put_request / get_result / close / interrupt /        *)
(* force_interrupt / in_transaction, and Application.destroy.              *)
(*                                                                         *)
(* Time is counted in ticks of statement work done by the worker: one tick *)
(* is the 1.0 second unit of join(timeout=1.0) and force_interrupt's delay. *)
(* A statement takes any number of ticks (exec_tick / fetch_tick repeat).   *)
(*                                                                         *)
(* Specifications:                                                         *)
(*   Spec        SQLRunner and the calls of the presentation thread        *)
(*   SpecNotify  SQLRunner, the after_idle notifications, on_sql_result,   *)
(*               Application.safely_close_db and open_db                   *)
(*   SpecEat     eat_atmost over a cursor of L rows with limit n           *)
(*   SpecView    one NamedTableView under any sequence of its calls        *)
(*   SpecApp     one table of the Application: scrolling, refresh_action,  *)
(*               on_sql_Schema and on_sql_TableRows                        *)
(*   SpecMerge   NamedTableView.insert, each call recorded with the view   *)
(*               it found                                                  *)
(*   SpecIds     get_column_ids over lists of column names                 *)
(*   SpecRx      ColorSyntax.SQL_STRING searched in a text                 *)
(*   SpecQuery   _handle_RunQuery and its directives, one text at a time   *)
(*   SpecScroll  one table of the Application scrolled, no refresh         *)
(*   SpecTables  one table of the Application that can be dropped, and     *)
(*               close_db                                                  *)
(* Each specification leaves the variables of the other parts unchanged.   *)
(***************************************************************************)
EXTENDS Integers, Sequences, FiniteSets, TLC

\* ------------------------------------------------------------------ bounds
MaxRequests == 2      \* requests submitted with put_request
MaxCalls == 2         \* top-level calls made by the presentation thread
MaxRows == 6          \* rows a cursor given to eat_atmost can yield
MaxLimit == 4         \* the limit n given to eat_atmost
MaxOffset == 3        \* offset of a batch given to insert
MaxBatch == 3         \* rows of a batch given to insert
MaxHeight == 3        \* height of the tree in a <Configure> event
row_height == 2       \* get_treeview_row_height(), in the same unit
ScreenHeight == 2     \* height of the tree while the table is refreshed
TableSize == 6        \* rows of the table the view shows
MaxPending == 2       \* requests of the table waiting when one more is put
BUFFER_SIZE_FACTOR == 4
JoinTicks == 1        \* close(): self.join(timeout=1.0)
DelayTicks == 1       \* force_interrupt(delay=1.0)

None == "None"

\* ------------------------------------------------------------- Request
\* A text is the sequence of its symbols: " ", ".", ";", "'" and words (runs
\* of other characters, which nothing here splits).
\* str.lstrip(), str.rstrip(chars) and str.strip()
RECURSIVE lstrip(_)
lstrip(text) ==
  IF text # <<>> /\ Head(text) = " " THEN lstrip(Tail(text)) ELSE text

RECURSIVE rstrip(_, _)
rstrip(text, chars) ==
  IF text # <<>> /\ text[Len(text)] \in chars
    THEN rstrip(SubSeq(text, 1, Len(text) - 1), chars)
    ELSE text

strip(text) == rstrip(lstrip(text), {" "})

\* shlex.split(text), POSIX mode: white space outside quotes ends a token,
\* a quote opens or closes a quoted part of the token, and a quote left
\* open at the end of the text raises ValueError ("No closing quotation").
RECURSIVE shlex_read(_, _, _, _, _)
shlex_read(text, token, in_token, in_quotes, argv) ==
  IF text = <<>>
    THEN IF in_quotes THEN [raised |-> "ValueError", argv |-> <<>>]
         ELSE [raised |-> "ok",
               argv |-> IF in_token THEN Append(argv, token) ELSE argv]
  ELSE IF Head(text) = "'"
    THEN shlex_read(Tail(text), token, TRUE, ~in_quotes, argv)
  ELSE IF Head(text) = " " /\ ~in_quotes
    THEN shlex_read(Tail(text), <<>>, FALSE, FALSE,
                    IF in_token THEN Append(argv, token) ELSE argv)
  ELSE shlex_read(Tail(text), Append(token, Head(text)), TRUE, in_quotes,
                  argv)

shlex_split(text) == shlex_read(text, <<>>, FALSE, FALSE, <<>>)

\* parse_directive: shlex.split(text.strip().rstrip(";")): argv, the verb
\* first, or the exception raised.
parse_directive(text) == shlex_split(rstrip(strip(text), {";"}))

\* query.startswith(".")
startswith_dot(text) == text # <<>> /\ Head(text) = "."

\* A request without a query text.
NoQuery == <<None>>

Request(id, type, query) == [id |-> id, type |-> type, query |-> query]

NoRequest == Request(0, None, NoQuery)

\* What the presentation thread may hand to put_request.
Submittable ==
  {<<"LoadSchema", NoQuery>>, <<"ViewTable", NoQuery>>,
   <<"RunScript", NoQuery>>, <<"DumpDB", NoQuery>>,
   <<"RunQuery", <<".", "frobnicate">>>>}

\* ------------------------------------------------------------- SQLResult
SQLResult(type, request, raised, error, warning, internal_error) ==
  [type |-> type, request |-> request, raised |-> raised, error |-> error,
   warning |-> warning, internal_error |-> internal_error]

NoResult == SQLResult(None, NoRequest, None, None, None, None)

\* SQLResult.has_error
has_error(r) ==
  r.error # None \/ r.internal_error # None \/ r.warning # None

\* Exceptions an sqlite3 call can raise ("ok": it returns).
Sqlite3Outcomes == {"ok", "sqlite3.Error", "sqlite3.Warning", "Exception"}

VARIABLES
  requests_q,     \* SQLRunner._requests_q
  results_q,      \* SQLRunner._results_q
  lock,           \* SQLRunner._lock: "free", "worker" or "main"
  db,             \* SQLRunner._db: None or "conn"
  is_processing,  \* SQLRunner._is_processing
  is_closing,     \* SQLRunner._is_closing
  interrupted,    \* the connection's interrupt flag (sqlite3_interrupt)
  wpc,            \* position of the worker thread in run()
  wreq,           \* the request run() is handling
  wres,           \* the Result being built for it
  mpc,            \* position of the presentation thread
  mstack,         \* its return labels, innermost call first
  mrv,            \* value returned by its last call
  timer,          \* ticks left of the timeout it is waiting on
  ncalls,         \* top-level calls it has made
  submitted,      \* history: requests put, in order
  dequeued,       \* history: requests taken by run(), in order
  pushed,         \* history: Results pushed, in order
  delivered,      \* history: Results returned by get_result, in order
  calls,          \* history: returns of close() and force_interrupt()
  destroyed,      \* outcome of Application.destroy
  notifs,         \* after_idle(_process_result) callbacks not yet run
  sql,            \* Application.sql: None or "runner"
  table_views,    \* Application.table_views: the names that have a view
  db_tables,      \* the names of the tables in the database file
  ea_it,          \* eat_atmost: rows the cursor "it" has not yielded yet
  ea_n,           \* eat_atmost: the limit n
  ea_i,           \* eat_atmost: the index i that enumerate() gave last
  objects,        \* eat_atmost: rows appended so far
  truncated,      \* eat_atmost: the flag returned
  epc,            \* position in eat_atmost
  table_view,     \* Application.table_views[name]: a NamedTableView
  saved,          \* Application.table_view_saved_states[name], or None
  saved_rows,     \* history: the rows of the view when saved was taken
  fetched,        \* the fetches made by the last call on the view
  last,           \* history: the last call on the view
  trip,           \* history: a snapshot on its way back into a new view
  chan,           \* requests put for the table, their Results not yet seen
  before,         \* history: the window before the first refresh
  merge,          \* history: the last insert: the view before it, its
                  \* batch, the branch it took, the row given to see
  description,    \* get_column_ids: the column names of cursor.description
  columns,        \* get_column_ids: the ids and names it returned
  text,           \* the text given to re.search(ColorSyntax.SQL_STRING, .)
  mo,             \* the match object it returned
  query,          \* the text of the RunQuery request being handled
  qresults,       \* the QueryResults pushed for it
  trace,          \* history: what its handler did to the connection and
                  \* to files
  qpc             \* "idle" or "handle"

tvars == <<table_views, db_tables>>
avars == <<notifs, sql, tvars>>
evars == <<ea_it, ea_n, ea_i, objects, truncated, epc>>
vwvars ==
  <<table_view, saved, saved_rows, fetched, last, trip, chan, before>>
gvars == <<description, columns>>
svars == <<text, mo>>
qvars == <<query, qresults, trace, qpc>>
fvars == <<merge, gvars, svars, qvars>>
xvars == <<evars, vwvars, fvars>>
rvars ==
  <<requests_q, results_q, lock, db, is_processing, is_closing, interrupted,
    wpc, wreq, wres, mpc, mstack, mrv, timer, ncalls, submitted, dequeued,
    pushed, delivered, calls, destroyed>>
wvars == <<wpc, wreq, wres>>
mvars == <<mpc, mstack, mrv, ncalls, calls, destroyed>>
hvars == <<submitted, dequeued, pushed, delivered>>
vars == <<rvars, avars, xvars>>

\* The table of the database, and the view on_sql_Schema has made for it.
TableName == "t"
TablesIdle ==
  /\ table_views = {TableName}
  /\ db_tables = {TableName}

\* No call of eat_atmost is in progress.
EatIdle ==
  /\ ea_it = [rows |-> <<>>, pos |-> 0]
  /\ ea_n = 0
  /\ ea_i = 0
  /\ objects = <<>>
  /\ truncated = FALSE
  /\ epc = "off"

\* ------------------------------------------------------- NamedTableView
\* None, in a field that otherwise holds a number.
NoInt == -1

\* A fraction num/den, as the scrollbar reports positions.
Fraction(num, den) == <<num, den>>

\* float(f) <= 0.2 and float(f) >= 0.8, the thresholds of lazy_load.
at_most_02(f) == f[1] * 10 <= 2 * f[2]
at_least_08(f) == f[1] * 10 >= 8 * f[2]

\* NamedTableView.__init__: nothing loaded, no limit yet; inc_limit does not
\* exist before on_tree_configure or restore_state; the scrollbar spans all.
NamedTableView ==
  [begin_window |-> 0, end_window |-> 0, previous_visible_item |-> NoInt,
   max_window_size |-> NoInt, inc_limit |-> NoInt, tree |-> <<>>,
   ys |-> <<Fraction(0, 1), Fraction(1, 1)>>]

\* NamedTableView.State
State(begin_window, end_window, visible_item) ==
  [begin_window |-> begin_window, end_window |-> end_window,
   visible_item |-> visible_item]

\* No entry for the table in table_view_saved_states.
NoState == State(NoInt, NoInt, NoInt)

\* State.is_empty
is_empty(state) == state.begin_window = 0 /\ state.end_window = 0

nb_view_items(v) == v.end_window - v.begin_window

\* row_from_fraction: int(nb_view_items * fraction) + begin_window
row_from_fraction(v, fraction) ==
  (nb_view_items(v) * fraction[1]) \div fraction[2] + v.begin_window

\* get_visible_item: the row at the scrollbar's lower bound.
get_visible_item(v) == row_from_fraction(v, v.ys[1])

\* The rows a ViewTable result carries for offset and a number of rows: each
\* row is named by its place in the table.
Rows(offset, nrows) == [j \in 1..nrows |-> offset + j - 1]

\* rows[start:] that takes a negative start for 0.
slice_from_zero(rows, start) ==
  SubSeq(rows, (IF start < 0 THEN 0 ELSE start) + 1, Len(rows))

\* Python's rows[start:] and rows[:stop], negative indexes counted from the
\* end.
slice_from(rows, start) ==
  LET from == IF start < 0
                THEN (IF Len(rows) + start < 0 THEN 0 ELSE Len(rows) + start)
                ELSE start
  IN SubSeq(rows, from + 1, Len(rows))

slice_to(rows, stop) ==
  LET to == IF stop < 0
              THEN (IF Len(rows) + stop < 0 THEN 0 ELSE Len(rows) + stop)
              ELSE (IF stop > Len(rows) THEN Len(rows) ELSE stop)
  IN SubSeq(rows, 1, to)

\* tree.insert('', 'end', iid=iid, values=row), tree.insert('', 0, ...),
\* tree.delete(iid), tree.exists(iid)
tree_insert_end(tree, iid, row) == Append(tree, [iid |-> iid, row |-> row])
tree_insert_0(tree, iid, row) == <<[iid |-> iid, row |-> row]>> \o tree
tree_delete(tree, iid) == SelectSeq(tree, LAMBDA item : item.iid # iid)
tree_exists(tree, iid) == \E k \in 1..Len(tree) : tree[k].iid = iid

\* _append_rows
RECURSIVE append_rows(_, _)
append_rows(v, rows) ==
  IF rows = <<>> THEN v
  ELSE append_rows(
         [v EXCEPT !.tree = tree_insert_end(@, v.end_window, Head(rows)),
                   !.end_window = @ + 1],
         Tail(rows))

\* insert: for row in reversed(rows[:excess]): the rows given last first.
RECURSIVE insert_at_beginning(_, _)
insert_at_beginning(v, rows) ==
  IF rows = <<>> THEN v
  ELSE insert_at_beginning(
         [v EXCEPT !.begin_window = @ - 1,
                   !.tree = tree_insert_0(@, v.begin_window - 1,
                                          rows[Len(rows)])],
         SubSeq(rows, 1, Len(rows) - 1))

\* The eviction loop of the append branch never runs.
delete_from_beginning_never(v) == v

\* The eviction loop of the prepend branch never runs.
delete_at_end_never(v) == v

\* insert: "while self.nb_view_items > self.max_window_size" deleting from
\* the beginning; without a limit (None) the comparison raises TypeError and
\* the call ends there.
RECURSIVE delete_from_beginning(_)
delete_from_beginning(v) ==
  IF v.max_window_size = NoInt THEN v
  ELSE IF nb_view_items(v) > v.max_window_size
    THEN delete_from_beginning(
           [v EXCEPT !.tree = tree_delete(@, v.begin_window),
                     !.begin_window = @ + 1])
    ELSE v

\* insert: the same loop deleting at the end.
RECURSIVE delete_at_end(_)
delete_at_end(v) ==
  IF v.max_window_size = NoInt THEN v
  ELSE IF nb_view_items(v) > v.max_window_size
    THEN delete_at_end(
           [v EXCEPT !.end_window = @ - 1,
                     !.tree = tree_delete(@, v.end_window - 1)])
    ELSE v

\* clear_all that clears down to offset 0 instead of down to begin_window.
RECURSIVE clear_all_to_zero(_)
clear_all_to_zero(v) ==
  IF v.end_window > 0
    THEN clear_all_to_zero(
           [v EXCEPT !.end_window = @ - 1,
                     !.tree = tree_delete(@, v.end_window - 1)])
    ELSE v

\* clear_all: a failed assertion leaves the view as it is.
RECURSIVE clear_all(_)
clear_all(v) ==
  IF v.end_window > v.begin_window
    THEN clear_all(
           [v EXCEPT !.end_window = @ - 1,
                     !.tree = tree_delete(@, v.end_window - 1)])
    ELSE v

\* The test of line 1058 with strict comparisons.
within_strictly(v, first_row, last_row) ==
  v.begin_window < first_row /\ last_row < v.end_window

\* insert: "the fetched area is within the current window".
within(v, first_row, last_row) ==
  v.begin_window <= first_row /\ last_row <= v.end_window

\* insert: "if first_row == last_row: return" taken as never true.
no_row_fetched_never(first_row, last_row) == FALSE

\* insert: "if first_row == last_row": we may have fetched no row.
no_row_fetched(first_row, last_row) == first_row = last_row

\* insert: "if self.begin_window == 0 and self.end_window == 0": with no
\* item loaded at all the window moves to the first row of the batch.
move_to_first_row(v, first_row) ==
  IF v.begin_window = 0 /\ v.end_window = 0
    THEN [v EXCEPT !.begin_window = first_row, !.end_window = first_row]
    ELSE v

\* insert: "elif begin_window <= last_row <= end_window" without the case
\* last_row = begin_window.
ends_in_window_strictly(v, last_row) ==
  v.begin_window < last_row /\ last_row <= v.end_window

\* insert: "if self.begin_window <= first_row <= self.end_window" and
\* "elif self.begin_window <= last_row <= self.end_window"
starts_in_window(v, first_row) ==
  v.begin_window <= first_row /\ first_row <= v.end_window

ends_in_window(v, last_row) ==
  v.begin_window <= last_row /\ last_row <= v.end_window

\* The branch of insert that deals with the batch: "return" (no row
\* fetched), "within", "append", "prepend" or "replace" (the else branch).
branch(v, rows, offset) ==
  LET first_row == offset
      last_row == offset + Len(rows)
      v1 == move_to_first_row(v, first_row)
  IN IF no_row_fetched(first_row, last_row) THEN "return"
     ELSE IF within(v1, first_row, last_row) THEN "within"
     ELSE IF starts_in_window(v1, first_row) THEN "append"
     ELSE IF ends_in_window(v1, last_row) THEN "prepend"
     ELSE "replace"

\* insert(rows, column_ids, column_names, offset, limit), but for the row
\* given to tree.see at its end, which tree_see computes.
insert(v, rows, offset) ==
  LET first_row == offset
      last_row == offset + Len(rows)
      v1 == move_to_first_row(v, first_row)
      v2 == [v1 EXCEPT !.previous_visible_item = NoInt]
      taken == branch(v, rows, offset)
  IN CASE taken = "return" -> v
       [] taken = "within" -> v1
       [] taken = "append" ->
            delete_from_beginning(
              append_rows(v2, slice_from(rows, -(last_row - v2.end_window))))
       [] taken = "prepend" ->
            delete_at_end(
              insert_at_beginning(
                v2, slice_to(rows, v2.begin_window - first_row)))
       [] taken = "replace" ->
            append_rows(
              [clear_all(v2) EXCEPT !.begin_window = first_row,
                                    !.end_window = first_row],
              rows)

\* insert: visible_item as captured before the rows are merged:
\* previous_visible_item if it is set, get_visible_item() otherwise; the
\* window has already moved to the first row if nothing was loaded.
visible_item(v, first_row) ==
  LET v1 == move_to_first_row(v, first_row)
  IN IF v1.previous_visible_item # NoInt
       THEN v1.previous_visible_item
       ELSE get_visible_item(v1)

\* tree.see given the 3/8 row whether visible_item exists or not.
see_always_three_eighths(w, captured) ==
  row_from_fraction(w, Fraction(3, 8))

\* insert: "Prevent auto-scroll down after inserting items": the row given
\* to tree.see in the view w, NoInt if tree.see is not called.
see(w, captured) ==
  IF nb_view_items(w) > 0 /\ captured # NoInt
    THEN IF tree_exists(w.tree, captured)
           THEN captured
           ELSE row_from_fraction(w, Fraction(3, 8))
    ELSE NoInt

\* The row insert gives to tree.see, NoInt if it returns before.
tree_see(v, rows, offset) ==
  IF branch(v, rows, offset) \in {"return", "within"} THEN NoInt
  ELSE see(insert(v, rows, offset), visible_item(v, offset))

\* A ViewTable request as Fetcher.__call__ builds it.
ViewTable(offset, limit) ==
  [type |-> "ViewTable", offset |-> offset, limit |-> limit]

\* lazy_load whose top threshold is float(begin_index) < 0.2.
lazy_load_strict(v, begin_index, end_index) ==
  LET limit0 == v.max_window_size - nb_view_items(v)
      limit == IF limit0 < v.inc_limit THEN v.inc_limit ELSE limit0
      down == v.begin_window > 0
                /\ begin_index[1] * 10 < 2 * begin_index[2]
      offset == IF v.begin_window - limit < 0 THEN 0
                ELSE v.begin_window - limit
      limit_up == IF down THEN v.begin_window - offset ELSE limit
  IN [view |-> [v EXCEPT !.ys = <<begin_index, end_index>>],
      fetched |-> (IF down THEN <<ViewTable(offset, v.begin_window - offset)>>
                   ELSE <<>>)
                  \o (IF at_least_08(end_index)
                        THEN <<ViewTable(v.end_window, limit_up)>>
                        ELSE <<>>)]

\* lazy_load that fetches backward without clipping the offset at 0.
lazy_load_unclipped(v, begin_index, end_index) ==
  LET limit0 == v.max_window_size - nb_view_items(v)
      limit == IF limit0 < v.inc_limit THEN v.inc_limit ELSE limit0
      down == v.begin_window > 0 /\ at_most_02(begin_index)
  IN [view |-> [v EXCEPT !.ys = <<begin_index, end_index>>],
      fetched |-> (IF down THEN <<ViewTable(v.begin_window - limit, limit)>>
                   ELSE <<>>)
                  \o (IF at_least_08(end_index)
                        THEN <<ViewTable(v.end_window, limit)>>
                        ELSE <<>>)]

\* lazy_load(begin_index, end_index): the view after it and the fetches it
\* makes, in order.
lazy_load(v, begin_index, end_index) ==
  LET limit0 == v.max_window_size - nb_view_items(v)
      limit == IF limit0 < v.inc_limit THEN v.inc_limit ELSE limit0
      down == v.begin_window > 0 /\ at_most_02(begin_index)
      offset == IF v.begin_window - limit < 0 THEN 0
                ELSE v.begin_window - limit
      limit_up == IF down THEN v.begin_window - offset ELSE limit
  IN [view |-> [v EXCEPT !.ys = <<begin_index, end_index>>],
      fetched |-> (IF down THEN <<ViewTable(offset, v.begin_window - offset)>>
                   ELSE <<>>)
                  \o (IF at_least_08(end_index)
                        THEN <<ViewTable(v.end_window, limit_up)>>
                        ELSE <<>>)]

\* Python's round(num / den): halves go to the even neighbour.
round(num, den) ==
  LET q == num \div den
      r2 == 2 * (num % den)
  IN IF r2 < den THEN q
     ELSE IF r2 > den THEN q + 1
     ELSE IF q % 2 = 0 THEN q ELSE q + 1

\* on_tree_configure(event), with _update_inc_limit
on_tree_configure(v, height) ==
  LET max == round(height, row_height) * BUFFER_SIZE_FACTOR
  IN [v EXCEPT !.max_window_size = max,
               !.inc_limit = max \div BUFFER_SIZE_FACTOR]

\* save_state
save_state(v) == State(v.begin_window, v.end_window, get_visible_item(v))

\* restore_state that fetches one increment instead of the whole window.
restore_state_inc(v, state) ==
  IF is_empty(state) THEN [view |-> v, fetched |-> <<>>]
  ELSE LET max == state.end_window - state.begin_window
       IN [view |-> [clear_all(v) EXCEPT
                       !.previous_visible_item = state.visible_item,
                       !.max_window_size = max,
                       !.inc_limit = max \div BUFFER_SIZE_FACTOR],
           fetched |-> <<ViewTable(state.begin_window,
                                   max \div BUFFER_SIZE_FACTOR)>>]

\* restore_state that does not keep the visible item of the snapshot.
restore_state_no_target(v, state) ==
  IF is_empty(state) THEN [view |-> v, fetched |-> <<>>]
  ELSE LET max == state.end_window - state.begin_window
       IN [view |-> [clear_all(v) EXCEPT
                       !.max_window_size = max,
                       !.inc_limit = max \div BUFFER_SIZE_FACTOR],
           fetched |-> <<ViewTable(state.begin_window, max)>>]

\* restore_state(state): the view after it and the fetch it makes.
restore_state(v, state) ==
  IF is_empty(state) THEN [view |-> v, fetched |-> <<>>]
  ELSE LET max == state.end_window - state.begin_window
       IN [view |-> [clear_all(v) EXCEPT
                       !.previous_visible_item = state.visible_item,
                       !.max_window_size = max,
                       !.inc_limit = max \div BUFFER_SIZE_FACTOR],
           fetched |-> <<ViewTable(state.begin_window, max)>>]

\* What the last call on the view was; for an insert, whether its batch was
\* not empty and inside the window, and then the view before it (a new view
\* stands in otherwise).
Last(op, inside, pre) == [op |-> op, inside |-> inside, pre |-> pre]
NoTrip == [stage |-> None, state |-> NoState, rows |-> <<>>]

\* The last insert on the view: none yet.
Merge(pre, offset, nrows, taken, item) ==
  [pre |-> pre, offset |-> offset, nrows |-> nrows, branch |-> taken,
   seen |-> item]
NoMerge == Merge(NamedTableView, 0, 0, None, NoInt)

\* ------------------------------------------------------- get_column_ids
\* get_column_id that gives up after its first try, name<1>.
get_column_id_once(name, seen) ==
  LET new_name == IF name \in seen THEN name \o <<"<", ToString(1), ">">>
                  ELSE name
  IN [id |-> new_name, seen |-> seen \cup {new_name}]

\* get_column_id: "while new_name in seen: new_name = f'{name}<{i}>'"; a
\* name is the sequence of its symbols, so the id made for a name equals a
\* column name spelt the same.
RECURSIVE get_column_id_while(_, _, _, _)
get_column_id_while(name, new_name, i, seen) ==
  IF new_name \in seen
    THEN get_column_id_while(name, name \o <<"<", ToString(i), ">">>, i + 1,
                             seen)
    ELSE [id |-> new_name, seen |-> seen \cup {new_name}]

\* get_column_id(name, seen): the id, and seen with the id added.
get_column_id(name, seen) == get_column_id_while(name, name, 1, seen)

\* get_column_ids: "for t in cursor.description" over the names not yet
\* done.
RECURSIVE get_column_ids_for(_, _, _, _)
get_column_ids_for(todo, seen, ids, names) ==
  IF todo = <<>> THEN [ids |-> ids, names |-> names, returned |-> TRUE]
  ELSE LET got == get_column_id(Head(todo), seen)
       IN get_column_ids_for(Tail(todo), got.seen, Append(ids, got.id),
                             Append(names, Head(todo)))

\* get_column_ids(cursor), cursor.description given by its column names.
get_column_ids(names) == get_column_ids_for(names, {}, <<>>, <<>>)

\* get_column_ids has not returned.
NoColumns == [ids |-> <<>>, names |-> <<>>, returned |-> FALSE]

\* ------------------------------------------------ ColorSyntax.SQL_STRING
\* The pattern without its first alternative: r"'[^']*'".
RECURSIVE SQL_STRING_no_escape(_, _)
SQL_STRING_no_escape(s, i) ==
  LET other == IF i <= Len(s) /\ s[i] # "'"
                 THEN SQL_STRING_no_escape(s, i + 1) ELSE 0
  IN IF other # 0 THEN other
     ELSE IF i <= Len(s) /\ s[i] = "'" THEN i + 1 ELSE 0

\* r"(?:''|[^'])*'" matched at position i of s the way re matches it: one
\* more turn of the group, '' tried before [^'], and when neither leads to
\* a match the closing quote. The position after the match, 0 if none.
RECURSIVE SQL_STRING_group(_, _)
SQL_STRING_group(s, i) ==
  LET doubled == IF i + 1 <= Len(s) /\ s[i] = "'" /\ s[i + 1] = "'"
                   THEN SQL_STRING_group(s, i + 2) ELSE 0
      other == IF i <= Len(s) /\ s[i] # "'"
                 THEN SQL_STRING_group(s, i + 1) ELSE 0
  IN IF doubled # 0 THEN doubled
     ELSE IF other # 0 THEN other
     ELSE IF i <= Len(s) /\ s[i] = "'" THEN i + 1 ELSE 0

\* SQL_STRING matched at position p: the opening quote, then the rest.
SQL_STRING(s, p) ==
  IF p <= Len(s) /\ s[p] = "'" THEN SQL_STRING_group(s, p + 1) ELSE 0

\* A match object: the span [start, stop) and group 0; re.search returns
\* None when the pattern matches nowhere.
Match(s, start, stop) ==
  [found |-> TRUE, start |-> start, stop |-> stop,
   group |-> SubSeq(s, start, stop - 1), returned |-> TRUE]
NoMatch == [found |-> FALSE, start |-> 0, stop |-> 0, group |-> <<>>,
            returned |-> TRUE]
NotSearched == [NoMatch EXCEPT !.returned = FALSE]

\* re.compile(ColorSyntax.SQL_STRING).search(s): the match at the leftmost
\* position that has one.
search(s) ==
  LET starts == {p \in 1..Len(s) : SQL_STRING(s, p) # 0}
  IN IF starts = {} THEN NoMatch
     ELSE LET p == CHOOSE p \in starts : \A q \in starts : p <= q
          IN Match(s, p, SQL_STRING(s, p))

\* --------------------------------------------------------------- idle
\* No RunQuery is being handled.
NoTrace == [calls |-> <<>>, description |-> None, raised |-> None]

MergeIdle == merge = NoMerge
IdsIdle == description = <<>> /\ columns = NoColumns
RxIdle == text = <<>> /\ mo = NotSearched
QueryIdle ==
  query = <<>> /\ qresults = <<>> /\ trace = NoTrace /\ qpc = "idle"

\* Nothing has been called yet.
FunIdle == MergeIdle /\ IdsIdle /\ RxIdle /\ QueryIdle

\* No view exists yet: no table is loaded.
ViewIdle ==
  /\ table_view = NamedTableView
  /\ saved = NoState
  /\ saved_rows = <<>>
  /\ fetched = <<>>
  /\ last = Last("__init__", FALSE, NamedTableView)
  /\ trip = NoTrip
  /\ chan = <<>>
  /\ before = <<>>

\* SQLRunner.__init__, then Thread.start(): run() has not executed yet.
SQLRunner_init ==
  /\ requests_q = <<>>
  /\ results_q = <<>>
  /\ lock = "free"
  /\ db = None
  /\ is_processing = FALSE
  /\ is_closing = FALSE
  /\ interrupted = FALSE
  /\ wpc = "open"
  /\ wreq = NoRequest
  /\ wres = NoResult
  /\ mpc = "idle"
  /\ mstack = <<>>
  /\ mrv = FALSE
  /\ timer = 0
  /\ ncalls = 0
  /\ submitted = <<>>
  /\ dequeued = <<>>
  /\ pushed = <<>>
  /\ delivered = <<>>
  /\ calls = <<>>
  /\ destroyed = "no"
  /\ notifs = 0

\* Application.open_db has made the runner: self.sql = SQLRunner(...).
Init ==
  /\ SQLRunner_init
  /\ sql = "runner"
  /\ TablesIdle
  /\ FunIdle
  /\ EatIdle
  /\ ViewIdle

\* Thread.is_alive(): run() has neither returned nor raised.
is_alive == wpc \notin {"done", "crashed"}

\* One tick of statement work: the timeout being waited on gets closer.
Tick == IF timer > 0 THEN timer - 1 ELSE 0

\* Where the presentation thread lets time pass: in the event loop, in
\* join(timeout), waiting for a lock the worker holds, and around the loop of
\* force_interrupt, which spins on interrupt(). Its other steps take no time.
time_passes ==
  \/ mpc \in {"idle", "join", "exit"}
  \/ /\ lock = "worker"
     /\ mpc \in {"close_set", "interrupt", "in_transaction", "fi_while",
                 "fi_return", "destroy_closed", "safely_close_db"}
  \/ mpc = "interrupt" /\ mstack # <<>>

\* Queue.put with the request or Result put first instead of last.
put_first(q, item) == <<item>> \o q

\* Queue.put: the item joins the end of the FIFO queue.
put(q, item) == Append(q, item)

\* Lock.acquire that does not wait for the holder.
acquire_unguarded(l) == TRUE

\* Lock.acquire (entering "with self._lock") can proceed.
acquire(l) == l = "free"

\* A loop test that ignores a failed open.
db_is_open_always(d) == TRUE

\* run: the test of "while self._db is not None".
db_is_open(d) == d # None

\* ------------------------------------------------------- handler wrapper
\* isinstance(exc, cls) for the exception classes the wrapper tells apart.
isinstance(exc, cls) ==
  CASE cls = "sqlite3.Error" -> exc = "sqlite3.Error"
    [] cls = "sqlite3.Warning" -> exc = "sqlite3.Warning"
    [] cls = "DirectiveError" -> exc \in {"DirectiveError", "DirectiveNotFound"}
    [] cls = "Exception" -> exc \in {"sqlite3.Error", "sqlite3.Warning",
                                     "DirectiveError", "DirectiveNotFound",
                                     "ValueError", "OSError", "Exception"}
    [] OTHER -> FALSE

\* A wrapper whose "except Exception" clause also runs for the exceptions the
\* clauses before it caught.
handler_except_all(result_type, request, raised) ==
  SQLResult(result_type, request, raised,
            IF isinstance(raised, "sqlite3.Error")
                 \/ isinstance(raised, "DirectiveError") THEN raised ELSE None,
            IF isinstance(raised, "sqlite3.Warning") THEN raised ELSE None,
            IF isinstance(raised, "Exception") THEN "exc_info" ELSE None)

\* The except clauses of handler.wrapper, in their order; raised = "ok" when
\* func returned its dict.
handler(result_type, request, raised) ==
  LET error == IF isinstance(raised, "sqlite3.Error") THEN raised
               ELSE IF isinstance(raised, "sqlite3.Warning") THEN None
               ELSE IF isinstance(raised, "DirectiveError") THEN raised
               ELSE None
      warning == IF isinstance(raised, "sqlite3.Error") THEN None
                 ELSE IF isinstance(raised, "sqlite3.Warning") THEN raised
                 ELSE None
      internal_error ==
                 IF isinstance(raised, "sqlite3.Error") THEN None
                 ELSE IF isinstance(raised, "sqlite3.Warning") THEN None
                 ELSE IF isinstance(raised, "DirectiveError") THEN None
                 ELSE IF isinstance(raised, "Exception") THEN "exc_info"
                 ELSE None
  IN SQLResult(result_type, request, raised, error, warning, internal_error)

\* The result_type given to @handler for each _handle_ method.
result_type(type) ==
  CASE type = "LoadSchema" -> "Schema"
    [] type = "ViewTable" -> "TableRows"
    [] type = "RunQuery" -> "QueryResult"
    [] OTHER -> None

\* getattr(self, f"_handle_{request_name}") succeeds.
has_handler(type) == type \in {"LoadSchema", "CloseDB", "ViewTable", "RunQuery"}

\* getattr(self, f"_handle_directive_{directive}") succeeds.
has_directive(directive) ==
  directive \in {<<"run">>, <<"dump">>, <<"drop_all_tables">>}

\* What a handler body does before it first asks for the lock: "lock" (it
\* goes on to the connection), "ok" (it returns a dict) or the exception it
\* raises.
before_lock(request) ==
  IF request.type \in {"LoadSchema", "ViewTable"} THEN {"lock"}
  ELSE IF Len(request.query) = 0 THEN {"ok"}
  ELSE IF ~startswith_dot(strip(request.query)) THEN {"lock"}
  ELSE LET parsed == parse_directive(strip(request.query))
           argv == parsed.argv
           directive == Tail(argv[1])
       IN IF parsed.raised # "ok" THEN {"Exception"}
          ELSE IF ~has_directive(directive) THEN {"DirectiveNotFound"}
          ELSE IF directive = <<"drop_all_tables">>
            THEN (IF Len(argv) # 1 THEN {"DirectiveError"} ELSE {"lock"})
          ELSE IF Len(argv) # 2 THEN {"DirectiveError"}
          ELSE {"lock", "Exception"}   \* open(filename) may fail

\* The handler goes on to read rows from the cursor after the statement was
\* issued: ViewTable always, RunQuery when cursor.description is not None.
fetches_rows(request) ==
  \/ request.type = "ViewTable"
  \/ request.type = "RunQuery" /\ request.query = <<"SELECT">>

\* --------------------------------------------------------------- worker
\* The except clauses of _open_db and the OpenDB result it builds (request
\* defaults to None).
OpenDB(raised) ==
  SQLResult("OpenDB", NoRequest, raised,
            IF isinstance(raised, "sqlite3.Error") THEN raised ELSE None,
            IF ~isinstance(raised, "sqlite3.Error")
                 /\ isinstance(raised, "sqlite3.Warning") THEN raised ELSE None,
            IF ~isinstance(raised, "sqlite3.Error")
                 /\ ~isinstance(raised, "sqlite3.Warning")
                 /\ isinstance(raised, "Exception") THEN "exc_info" ELSE None)

\* _open_db: connect under the lock, build the OpenDB result.
open_db ==
  /\ wpc = "open"
  /\ acquire(lock)
  /\ \E out \in Sqlite3Outcomes :
       /\ db' = IF out = "ok" THEN "conn" ELSE None
       /\ wres' = OpenDB(out)
  /\ wpc' = "push"
  /\ UNCHANGED <<requests_q, results_q, lock, is_processing, is_closing,
                 interrupted, wreq, timer>>
  /\ UNCHANGED mvars /\ UNCHANGED hvars
  /\ UNCHANGED avars /\ UNCHANGED xvars

\* _push_result, then the test of "while self._db is not None".
push_result ==
  /\ wpc = "push"
  /\ results_q' = put(results_q, wres)
  /\ pushed' = Append(pushed, wres)
  /\ wpc' = IF db_is_open(db) THEN "get" ELSE "done"
  /\ wreq' = NoRequest
  /\ wres' = NoResult
  /\ UNCHANGED <<requests_q, lock, db, is_processing, is_closing, interrupted,
                 timer, submitted, dequeued, delivered>>
  /\ UNCHANGED mvars
  /\ notifs' = notifs + 1
  /\ UNCHANGED sql /\ UNCHANGED tvars /\ UNCHANGED xvars

\* run: request = self._requests_q.get(), and the dispatch on its type.
get_request ==
  /\ wpc = "get"
  /\ requests_q # <<>>
  /\ LET request == Head(requests_q)
     IN /\ requests_q' = Tail(requests_q)
        /\ dequeued' = Append(dequeued, request)
        /\ wreq' = request
        /\ wpc' = IF request.type = "CloseDB" THEN "close_lock"
                  ELSE IF has_handler(request.type) THEN "set_processing"
                  ELSE "crashed"       \* raise TypeError: run() ends
  /\ UNCHANGED <<results_q, lock, db, is_processing, is_closing, interrupted,
                 wres, timer, submitted, pushed, delivered>>
  /\ UNCHANGED mvars
  /\ UNCHANGED avars /\ UNCHANGED xvars

\* run, CloseDB branch: with self._lock
close_lock ==
  /\ wpc = "close_lock"
  /\ acquire(lock)
  /\ lock' = "worker"
  /\ wpc' = "closing"
  /\ UNCHANGED <<requests_q, results_q, db, is_processing, is_closing,
                 interrupted, wreq, wres, timer>>
  /\ UNCHANGED mvars /\ UNCHANGED hvars
  /\ UNCHANGED avars /\ UNCHANGED xvars

\* run, CloseDB branch: self._db.close(); self._db = None; _is_closing = False
close_db ==
  /\ wpc = "closing"
  /\ db' = None
  /\ is_closing' = FALSE
  /\ lock' = "free"
  /\ wpc' = "done"
  /\ wreq' = NoRequest
  /\ UNCHANGED <<requests_q, results_q, is_processing, interrupted, wres,
                 timer>>
  /\ UNCHANGED mvars /\ UNCHANGED hvars
  /\ UNCHANGED avars /\ UNCHANGED xvars

\* run: with self._lock: self._is_processing = True
set_processing ==
  /\ wpc = "set_processing"
  /\ acquire(lock)
  /\ is_processing' = TRUE
  /\ wpc' = "handle"
  /\ UNCHANGED <<requests_q, results_q, lock, db, is_closing, interrupted,
                 wreq, wres, timer>>
  /\ UNCHANGED mvars /\ UNCHANGED hvars
  /\ UNCHANGED avars /\ UNCHANGED xvars

\* The handler body up to its first use of the lock.
handle ==
  /\ wpc = "handle"
  /\ \E out \in before_lock(wreq) :
       IF out = "lock"
         THEN wpc' = "lock" /\ wres' = wres
         ELSE /\ wpc' = "clear"
              /\ wres' = handler(result_type(wreq.type), wreq, out)
  /\ UNCHANGED <<requests_q, results_q, lock, db, is_processing, is_closing,
                 interrupted, wreq, timer>>
  /\ UNCHANGED mvars /\ UNCHANGED hvars
  /\ UNCHANGED avars /\ UNCHANGED xvars

\* _execute, _executescript, _dump, _drop_all_tables, _handle_LoadSchema:
\* with self._lock
acquire_lock ==
  /\ wpc = "lock"
  /\ acquire(lock)
  /\ lock' = "worker"
  /\ wpc' = "exec"
  /\ UNCHANGED <<requests_q, results_q, db, is_processing, is_closing,
                 interrupted, wreq, wres, timer>>
  /\ UNCHANGED mvars /\ UNCHANGED hvars
  /\ UNCHANGED avars /\ UNCHANGED xvars

\* The statement (script, dump, schema load, drop-all) runs inside the with
\* block: one tick of its work (a tick changes the state only while a
\* timeout is running).
exec_tick ==
  /\ wpc = "exec"
  /\ timer > 0
  /\ time_passes
  /\ timer' = Tick
  /\ UNCHANGED <<requests_q, results_q, lock, db, is_processing, is_closing,
                 interrupted, wpc, wreq, wres>>
  /\ UNCHANGED mvars /\ UNCHANGED hvars
  /\ UNCHANGED avars /\ UNCHANGED xvars

\* The call inside the with block returns or raises, the lock being kept
\* when it raises.
exec_end_keeps_lock ==
  /\ wpc = "exec"
  /\ \E out \in Sqlite3Outcomes :
       /\ lock' = IF out = "ok" THEN "free" ELSE lock
       /\ IF out = "ok" /\ fetches_rows(wreq)
            THEN wpc' = "fetch" /\ wres' = wres
            ELSE /\ wpc' = "clear"
                 /\ wres' = handler(result_type(wreq.type), wreq, out)
  /\ UNCHANGED <<requests_q, results_q, db, is_processing, is_closing,
                 interrupted, wreq, timer>>
  /\ UNCHANGED mvars /\ UNCHANGED hvars
  /\ UNCHANGED avars /\ UNCHANGED xvars

\* The call inside the with block returns or raises; the lock is released.
exec_end ==
  /\ wpc = "exec"
  /\ lock' = "free"
  /\ \E out \in Sqlite3Outcomes :
       IF out = "ok" /\ fetches_rows(wreq)
         THEN wpc' = "fetch" /\ wres' = wres
         ELSE /\ wpc' = "clear"
              /\ wres' = handler(result_type(wreq.type), wreq, out)
  /\ UNCHANGED <<requests_q, results_q, db, is_processing, is_closing,
                 interrupted, wreq, timer>>
  /\ UNCHANGED mvars /\ UNCHANGED hvars
  /\ UNCHANGED avars /\ UNCHANGED xvars

\* list(cursor) / eat_atmost(cursor), outside the lock: one tick of fetching.
fetch_tick ==
  /\ wpc = "fetch"
  /\ ~interrupted
  /\ timer > 0
  /\ time_passes
  /\ timer' = Tick
  /\ UNCHANGED <<requests_q, results_q, lock, db, is_processing, is_closing,
                 interrupted, wpc, wreq, wres>>
  /\ UNCHANGED mvars /\ UNCHANGED hvars
  /\ UNCHANGED avars /\ UNCHANGED xvars

\* The fetch ends: all rows read, or sqlite3.OperationalError("interrupted")
\* at the next step after the connection was interrupted.
fetch_end ==
  /\ wpc = "fetch"
  /\ wres' = handler(result_type(wreq.type), wreq,
                     IF interrupted THEN "sqlite3.Error" ELSE "ok")
  /\ interrupted' = FALSE
  /\ wpc' = "clear"
  /\ UNCHANGED <<requests_q, results_q, lock, db, is_processing, is_closing,
                 wreq, timer>>
  /\ UNCHANGED mvars /\ UNCHANGED hvars
  /\ UNCHANGED avars /\ UNCHANGED xvars

\* run without the finally clause: _is_processing stays as it is.
clear_processing_never ==
  /\ wpc = "clear"
  /\ acquire(lock)
  /\ wpc' = "push"
  /\ UNCHANGED <<requests_q, results_q, lock, db, is_processing, is_closing,
                 interrupted, wreq, wres, timer>>
  /\ UNCHANGED mvars /\ UNCHANGED hvars
  /\ UNCHANGED avars /\ UNCHANGED xvars

\* run: finally: with self._lock: self._is_processing = False
clear_processing ==
  /\ wpc = "clear"
  /\ acquire(lock)
  /\ is_processing' = FALSE
  /\ wpc' = "push"
  /\ UNCHANGED <<requests_q, results_q, lock, db, is_closing, interrupted,
                 wreq, wres, timer>>
  /\ UNCHANGED mvars /\ UNCHANGED hvars
  /\ UNCHANGED avars /\ UNCHANGED xvars

\* ---------------------------------------------------- presentation thread
\* A call of a method of this model from position mpc, to come back at label.
Call(start, label) ==
  /\ mpc' = start
  /\ mstack' = <<label>> \o mstack

\* Return of value v to the caller; a top-level call returns to the event
\* loop, which drops the value.
Return(v) ==
  /\ mpc' = IF mstack = <<>> THEN "idle" ELSE Head(mstack)
  /\ mstack' = IF mstack = <<>> THEN <<>> ELSE Tail(mstack)
  /\ mrv' = IF mstack = <<>> THEN FALSE ELSE v

\* The event loop starts one of the calls below.
TopCall(start) ==
  /\ mpc = "idle"
  /\ ncalls < MaxCalls
  /\ ncalls' = ncalls + 1
  /\ mpc' = start
  /\ UNCHANGED <<requests_q, results_q, lock, db, is_processing, is_closing,
                 interrupted, timer, mstack, mrv, calls, destroyed>>
  /\ UNCHANGED wvars /\ UNCHANGED hvars
  /\ UNCHANGED avars /\ UNCHANGED xvars

\* Requests put so far by put_request callers other than close().
nb_put == Cardinality({i \in 1..Len(submitted) : submitted[i].type # "CloseDB"})

\* SQLRunner.put_request
put_request ==
  /\ mpc = "idle"
  /\ nb_put < MaxRequests
  /\ \E s \in Submittable :
       LET request == Request(Len(submitted) + 1, s[1], s[2])
       IN /\ requests_q' = put(requests_q, request)
          /\ submitted' = Append(submitted, request)
  /\ UNCHANGED <<results_q, lock, db, is_processing, is_closing, interrupted,
                 timer, dequeued, pushed, delivered>>
  /\ UNCHANGED wvars /\ UNCHANGED mvars
  /\ UNCHANGED avars /\ UNCHANGED xvars

\* SQLRunner.get_result: get_nowait on a non-empty queue.
get_result ==
  /\ mpc = "idle"
  /\ results_q # <<>>
  /\ delivered' = Append(delivered, Head(results_q))
  /\ results_q' = Tail(results_q)
  /\ UNCHANGED <<requests_q, lock, db, is_processing, is_closing, interrupted,
                 timer, submitted, dequeued, pushed>>
  /\ UNCHANGED wvars /\ UNCHANGED mvars
  /\ UNCHANGED avars /\ UNCHANGED xvars

call_close == TopCall("close")
call_interrupt == TopCall("interrupt")
call_force_interrupt == TopCall("force_interrupt")
call_in_transaction == TopCall("in_transaction")
call_destroy == TopCall("destroy")

\* SQLRunner.close: if not self._is_closing: self.put_request(CloseDB())
close ==
  /\ mpc = "close"
  /\ IF ~is_closing
       THEN LET request == Request(Len(submitted) + 1, "CloseDB", None)
            IN /\ requests_q' = put(requests_q, request)
               /\ submitted' = Append(submitted, request)
               /\ mpc' = "close_set"
               /\ timer' = timer
       ELSE /\ mpc' = "join"
            /\ timer' = JoinTicks
            /\ UNCHANGED <<requests_q, submitted>>
  /\ UNCHANGED <<results_q, lock, db, is_processing, is_closing, interrupted,
                 mstack, mrv, ncalls, calls, destroyed, dequeued, pushed,
                 delivered>>
  /\ UNCHANGED wvars
  /\ UNCHANGED avars /\ UNCHANGED xvars

\* SQLRunner.close: with self._lock: self._is_closing = True
close_set ==
  /\ mpc = "close_set"
  /\ acquire(lock)
  /\ is_closing' = TRUE
  /\ mpc' = "join"
  /\ timer' = JoinTicks
  /\ UNCHANGED <<requests_q, results_q, lock, db, is_processing, interrupted,
                 mstack, mrv, ncalls, calls, destroyed>>
  /\ UNCHANGED wvars /\ UNCHANGED hvars
  /\ UNCHANGED avars /\ UNCHANGED xvars

\* The worker is blocked in Queue.get: it does no work while time passes.
worker_waiting == wpc = "get" /\ requests_q = <<>>

\* SQLRunner.close: self.join(timeout=1.0); return not self.is_alive()
join ==
  /\ mpc = "join"
  /\ ~is_alive \/ timer = 0 \/ worker_waiting
  /\ calls' = Append(calls, [op |-> "close", ret |-> ~is_alive,
                             busy |-> wpc \in {"exec", "fetch"},
                             queued |-> Len(requests_q)])
  /\ timer' = 0
  /\ Return(~is_alive)
  /\ UNCHANGED <<requests_q, results_q, lock, db, is_processing, is_closing,
                 interrupted, ncalls, destroyed>>
  /\ UNCHANGED wvars /\ UNCHANGED hvars
  /\ UNCHANGED avars /\ UNCHANGED xvars

\* SQLRunner.interrupt: with self._lock
interrupt ==
  /\ mpc = "interrupt"
  /\ acquire(lock)
  /\ lock' = "main"
  /\ mpc' = "interrupt_db"
  /\ UNCHANGED <<requests_q, results_q, db, is_processing, is_closing,
                 interrupted, timer, mstack, mrv, ncalls, calls, destroyed>>
  /\ UNCHANGED wvars /\ UNCHANGED hvars
  /\ UNCHANGED avars /\ UNCHANGED xvars

\* SQLRunner.interrupt: if self._db is None: return; self._db.interrupt().
\* sqlite3_interrupt acts on a statement that is running, here one whose rows
\* are being fetched, and does nothing otherwise.
interrupt_db ==
  /\ mpc = "interrupt_db"
  /\ interrupted' = (interrupted \/ (db # None /\ wpc = "fetch"))
  /\ lock' = "free"
  /\ Return(FALSE)
  /\ UNCHANGED <<requests_q, results_q, db, is_processing, is_closing, timer,
                 ncalls, calls, destroyed>>
  /\ UNCHANGED wvars /\ UNCHANGED hvars
  /\ UNCHANGED avars /\ UNCHANGED xvars

\* SQLRunner.in_transaction: with self._lock
in_transaction ==
  /\ mpc = "in_transaction"
  /\ acquire(lock)
  /\ lock' = "main"
  /\ mpc' = "in_transaction_db"
  /\ UNCHANGED <<requests_q, results_q, db, is_processing, is_closing,
                 interrupted, timer, mstack, mrv, ncalls, calls, destroyed>>
  /\ UNCHANGED wvars /\ UNCHANGED hvars
  /\ UNCHANGED avars /\ UNCHANGED xvars

\* SQLRunner.in_transaction: False without a connection, else
\* self._db.in_transaction.
in_transaction_db ==
  /\ mpc = "in_transaction_db"
  /\ lock' = "free"
  /\ \E b \in (IF db = None THEN {FALSE} ELSE BOOLEAN) : Return(b)
  /\ UNCHANGED <<requests_q, results_q, db, is_processing, is_closing,
                 interrupted, timer, ncalls, calls, destroyed>>
  /\ UNCHANGED wvars /\ UNCHANGED hvars
  /\ UNCHANGED avars /\ UNCHANGED xvars

\* SQLRunner.force_interrupt: started_at = time()
force_interrupt ==
  /\ mpc = "force_interrupt"
  /\ timer' = DelayTicks
  /\ mpc' = "fi_while"
  /\ UNCHANGED <<requests_q, results_q, lock, db, is_processing, is_closing,
                 interrupted, mstack, mrv, ncalls, calls, destroyed>>
  /\ UNCHANGED wvars /\ UNCHANGED hvars
  /\ UNCHANGED avars /\ UNCHANGED xvars

\* SQLRunner.force_interrupt:
\* while self.is_processing and time() - started_at < delay: self.interrupt()
fi_while ==
  /\ mpc = "fi_while"
  /\ acquire(lock)                     \* is_processing takes the lock
  /\ IF is_processing /\ timer > 0
       THEN Call("interrupt", "fi_while")
       ELSE mpc' = "fi_return" /\ mstack' = mstack
  /\ UNCHANGED <<requests_q, results_q, lock, db, is_processing, is_closing,
                 interrupted, timer, mrv, ncalls, calls, destroyed>>
  /\ UNCHANGED wvars /\ UNCHANGED hvars
  /\ UNCHANGED avars /\ UNCHANGED xvars

\* SQLRunner.force_interrupt: return not self.is_processing
fi_return ==
  /\ mpc = "fi_return"
  /\ acquire(lock)
  /\ calls' = Append(calls, [op |-> "force_interrupt", ret |-> ~is_processing,
                             busy |-> wpc \in {"exec", "fetch"},
                             queued |-> Len(requests_q)])
  /\ timer' = 0
  /\ Return(~is_processing)
  /\ UNCHANGED <<requests_q, results_q, lock, db, is_processing, is_closing,
                 interrupted, ncalls, destroyed>>
  /\ UNCHANGED wvars /\ UNCHANGED hvars
  /\ UNCHANGED avars /\ UNCHANGED xvars

\* Application.destroy: if self.sql.close():
destroy ==
  /\ mpc = "destroy"
  /\ Call("close", "destroy_closed")
  /\ UNCHANGED <<requests_q, results_q, lock, db, is_processing, is_closing,
                 interrupted, timer, mrv, ncalls, calls, destroyed>>
  /\ UNCHANGED wvars /\ UNCHANGED hvars
  /\ UNCHANGED avars /\ UNCHANGED xvars

\* Application.destroy: "done closing." or else: if self.sql.is_processing:
destroy_closed ==
  /\ mpc = "destroy_closed"
  /\ IF mrv
       THEN /\ destroyed' = "closed"
            /\ mpc' = "exit"
            /\ mstack' = mstack
       ELSE /\ acquire(lock)           \* is_processing takes the lock
            /\ IF is_processing
                 THEN /\ Call("force_interrupt", "destroy_retry")
                      /\ destroyed' = destroyed
                 ELSE /\ destroyed' = "silent"   \* straight to "Good bye"
                      /\ mpc' = "exit"
                      /\ mstack' = mstack
  /\ UNCHANGED <<requests_q, results_q, lock, db, is_processing, is_closing,
                 interrupted, timer, mrv, ncalls, calls>>
  /\ UNCHANGED wvars /\ UNCHANGED hvars
  /\ UNCHANGED avars /\ UNCHANGED xvars

\* Application.destroy: "Retry to close...": if self.sql.close():
destroy_retry ==
  /\ mpc = "destroy_retry"
  /\ Call("close", "destroy_retried")
  /\ UNCHANGED <<requests_q, results_q, lock, db, is_processing, is_closing,
                 interrupted, timer, mrv, ncalls, calls, destroyed>>
  /\ UNCHANGED wvars /\ UNCHANGED hvars
  /\ UNCHANGED avars /\ UNCHANGED xvars

\* Application.destroy: "done closing." or "Failed to close... Too bad!"
destroy_retried ==
  /\ mpc = "destroy_retried"
  /\ destroyed' = IF mrv THEN "retried" ELSE "reported"
  /\ mpc' = "exit"
  /\ UNCHANGED <<requests_q, results_q, lock, db, is_processing, is_closing,
                 interrupted, timer, mstack, mrv, ncalls, calls>>
  /\ UNCHANGED wvars /\ UNCHANGED hvars
  /\ UNCHANGED avars /\ UNCHANGED xvars

\* ------------------------------------------------------------------ Spec
Worker ==
  \/ open_db \/ push_result \/ get_request \/ close_lock \/ close_db
  \/ set_processing \/ handle \/ acquire_lock \/ exec_tick \/ exec_end
  \/ fetch_tick \/ fetch_end \/ clear_processing

Main ==
  \/ put_request \/ get_result
  \/ call_close \/ call_interrupt \/ call_force_interrupt
  \/ call_in_transaction \/ call_destroy
  \/ close \/ close_set \/ join
  \/ interrupt \/ interrupt_db \/ in_transaction \/ in_transaction_db
  \/ force_interrupt \/ fi_while \/ fi_return
  \/ destroy \/ destroy_closed \/ destroy_retry \/ destroy_retried

Next == Worker \/ Main

Spec == Init /\ [][Next]_vars

\* ---------------------------------------------------------------- claims
\* Requests of the Results in seq, in order.
RequestsOf(seq) == [i \in 1..Len(seq) |-> seq[i].request]

\* s is a prefix of t.
IsPrefix(s, t) == Len(s) <= Len(t) /\ \A i \in 1..Len(s) : s[i] = t[i]

\* The Results pushed after the first one.
AfterFirst == IF pushed = <<>> THEN <<>> ELSE Tail(pushed)

NotCloseDB(request) == request.type # "CloseDB"

\* Number of Results pushed for request.
NbResults(request) ==
  Cardinality({i \in 1..Len(pushed) : pushed[i].request = request})

\* Number of failure fields set in Result r.
NbFailures(r) ==
  (IF r.error # None THEN 1 ELSE 0) + (IF r.warning # None THEN 1 ELSE 0)
  + (IF r.internal_error # None THEN 1 ELSE 0)

\* C1: the Results pushed after the OpenDB result carry the submitted
\* requests in submission order (they follow the submitted requests one by
\* one from the first), and get_result returns the Results in the order they
\* were pushed.
C1_ResultsInSubmissionOrder ==
  /\ IsPrefix(RequestsOf(AfterFirst), SelectSeq(submitted, NotCloseDB))
  /\ IsPrefix(delivered, pushed)

\* C1 witness: two requests were answered and both Results were delivered.
C1_Witness ==
  /\ Len(delivered) = 3
  /\ delivered[2].request = submitted[1]
  /\ delivered[3].request = submitted[2]

\* C2: every request other than CloseDB that the worker has taken and is no
\* longer handling has exactly one Result, and CloseDB has none.
C2_ExactlyOneResult ==
  \A i \in 1..Len(dequeued) :
    LET request == dequeued[i]
    IN IF request.type = "CloseDB" THEN NbResults(request) = 0
       ELSE (is_alive /\ wreq = request) \/ NbResults(request) = 1

\* C3: the worker thread is never ended by an exception.
C3_WorkerNeverRaises == wpc # "crashed"

\* C4: every Result pushed has at most one of error, warning, internal_error
\* set: error alone for sqlite3.Error and DirectiveError, warning alone for
\* sqlite3.Warning, internal_error alone for any other exception, none when
\* nothing was raised.
C4_AtMostOneFailure ==
  \A i \in 1..Len(pushed) :
    LET r == pushed[i]
    IN /\ NbFailures(r) <= 1
       /\ r.raised \in {"sqlite3.Error", "DirectiveError", "DirectiveNotFound"}
            => r.error # None /\ NbFailures(r) = 1
       /\ r.raised = "sqlite3.Warning" => r.warning # None /\ NbFailures(r) = 1
       /\ r.raised = "Exception"
            => r.internal_error # None /\ NbFailures(r) = 1
       /\ r.raised = "ok" => NbFailures(r) = 0

\* C4 witness: the wrapper has built a Result with an error from a
\* DirectiveNotFound and a Result with a warning.
C4_Witness ==
  /\ \E i \in 1..Len(pushed) : pushed[i].error = "DirectiveNotFound"
  /\ \E i \in 1..Len(pushed) :
       pushed[i].type # "OpenDB" /\ pushed[i].warning # None

\* The open failed: connect raised.
OpenFailed == pushed # <<>> /\ pushed[1].raised # "ok"

\* C5: the first Result pushed is the OpenDB result and no other is; it is
\* pushed before any request is taken from the queue; when the open failed it
\* carries the failure and the worker ends without taking any request.
C5_OpenDBFirst ==
  /\ \A i \in 1..Len(pushed) : (pushed[i].type = "OpenDB") <=> (i = 1)
  /\ dequeued # <<>> => pushed # <<>>
  /\ OpenFailed => has_error(pushed[1]) /\ dequeued = <<>> /\ wpc = "done"
  /\ wpc \in {"get", "set_processing", "handle", "lock", "exec", "fetch",
              "clear", "close_lock", "closing", "crashed"} => ~OpenFailed

\* C5 witness: the open failed with a request already in the queue, and the
\* worker has ended leaving it there.
C5_Witness ==
  /\ OpenFailed
  /\ wpc = "done"
  /\ requests_q # <<>>

\* C6: while the worker executes a statement, script, dump, schema load or
\* drop-all, it does not hold the lock, so that interrupt, in_transaction
\* and the flag reads and writes can take it.
C6_LockFreeWhileExecuting == wpc = "exec" => lock # "worker"

\* The worker is using the connection: a statement is running inside
\* execute / executescript / iterdump, rows are being read from a cursor, or
\* the connection is being closed.
WorkerUsesDb == wpc \in {"exec", "fetch", "closing"}

\* The presentation thread is inside self._db.interrupt() or
\* self._db.in_transaction.
MainUsesDb == mpc \in {"interrupt_db", "in_transaction_db"} /\ db # None

\* C7 as stated: the two threads never use the connection at the same time.
C7_NoConcurrentUse == ~(WorkerUsesDb /\ MainUsesDb)

\* C7 amended: interrupt and in_transaction never overlap the worker issuing
\* a statement (execute, executescript, iterdump, schema load, drop-all) or
\* closing the connection; reading rows from a cursor is not covered.
C7_NoConcurrentIssue == ~(wpc \in {"exec", "closing"} /\ MainUsesDb)

\* C7 witness: interrupt or in_transaction is called while the worker is
\* inside a statement, and waits for the lock.
C7_Witness == wpc = "exec" /\ mpc \in {"interrupt", "in_transaction"}

\* Index of the first CloseDB submitted, 0 if none.
FirstCloseDB ==
  IF \E i \in 1..Len(submitted) : submitted[i].type = "CloseDB"
    THEN CHOOSE i \in 1..Len(submitted) :
           /\ submitted[i].type = "CloseDB"
           /\ \A j \in 1..(i - 1) : submitted[j].type # "CloseDB"
    ELSE 0

\* C8: once the database was opened, CloseDB submitted and the worker has
\* ended, every request submitted before CloseDB has its Result, in order,
\* the connection is closed (None), and nothing submitted after CloseDB was
\* taken.
C8_CloseDrainsThenCloses ==
  (FirstCloseDB > 0 /\ ~is_alive /\ ~OpenFailed) =>
    /\ db = None
    /\ RequestsOf(AfterFirst) = SubSeq(submitted, 1, FirstCloseDB - 1)
    /\ dequeued = SubSeq(submitted, 1, FirstCloseDB)

\* C9: a close() that returned false during a running statement, followed by
\* a force_interrupt that returned, is followed by a close() that returns
\* true.
C9_CloseAfterForceInterrupt ==
  \A i \in 1..(Len(calls) - 2) :
    ( /\ calls[i].op = "close" /\ ~calls[i].ret /\ calls[i].busy
      /\ calls[i + 1].op = "force_interrupt"
      /\ calls[i + 2].op = "close" )
    => calls[i + 2].ret

\* C10: Application.destroy never ends with a failed close that was neither
\* retried nor reported.
C10_DestroyRetriesOrReports == destroyed # "silent"

\* ------------------------------------------------------------ eat_atmost
\* A cursor over rows 1..L, nothing yielded yet.
Cursor(L) == [rows |-> [k \in 1..L |-> k], pos |-> 0]

\* next(it) raises StopIteration.
exhausted(c) == c.pos >= Len(c.rows)

\* eat_atmost(it, n) is called: objects = [].
InitEat ==
  /\ SQLRunner_init
  /\ sql = "runner"
  /\ TablesIdle
  /\ FunIdle
  /\ \E L \in 0..MaxRows : ea_it = Cursor(L)
  /\ ea_n \in 0..MaxLimit
  /\ ea_i = 0
  /\ objects = <<>>
  /\ truncated = FALSE
  /\ epc = "for"
  /\ ViewIdle

\* One turn of "for i, obj in enumerate(it)": the cursor yields obj, and the
\* body breaks or appends; an exhausted cursor ends the loop.
eat_for ==
  /\ epc = "for"
  /\ IF exhausted(ea_it)
       THEN /\ epc' = "next"
            /\ UNCHANGED <<ea_it, ea_i, objects>>
       ELSE /\ ea_it' = [ea_it EXCEPT !.pos = @ + 1]
            /\ ea_i' = ea_i + 1
            /\ IF ea_i >= ea_n
                 THEN epc' = "next" /\ UNCHANGED objects
                 ELSE /\ objects' = Append(objects, ea_it.rows[ea_it.pos + 1])
                      /\ epc' = "for"
  /\ UNCHANGED <<ea_n, truncated>>
  /\ UNCHANGED rvars /\ UNCHANGED avars /\ UNCHANGED vwvars
  /\ UNCHANGED fvars

\* try: next(it); except StopIteration: truncated = False; else: True.
eat_next ==
  /\ epc = "next"
  /\ IF exhausted(ea_it)
       THEN truncated' = FALSE /\ UNCHANGED ea_it
       ELSE /\ truncated' = TRUE
            /\ ea_it' = [ea_it EXCEPT !.pos = @ + 1]
  /\ epc' = "return"
  /\ UNCHANGED <<ea_n, ea_i, objects>>
  /\ UNCHANGED rvars /\ UNCHANGED avars /\ UNCHANGED vwvars
  /\ UNCHANGED fvars

NextEat == eat_for \/ eat_next

SpecEat == InitEat /\ [][NextEat]_vars

\* C19: when eat_atmost returns, truncated is true exactly when the cursor
\* had more rows than the limit (L > N).
C19_TruncatedIffMore ==
  epc = "return" => (truncated <=> Len(ea_it.rows) > ea_n)

\* C20: eat_atmost never takes more than N + 1 rows from the cursor.
C20_TakesAtMostNPlusOne == ea_it.pos <= ea_n + 1

\* ------------------------------------------- Application and its runner
\* Application.on_sql_result, run by the after_idle callback that
\* _push_result scheduled: it returns at once without a runner or while the
\* runner is closing, and otherwise takes one Result with get_result (an
\* empty queue raises queue.Empty and nothing is taken). on_sql_OpenDB drops
\* the runner of a failed open.
on_sql_result ==
  /\ mpc = "idle"
  /\ notifs > 0
  /\ notifs' = notifs - 1
  /\ IF sql = None
       THEN UNCHANGED <<results_q, delivered, sql>>
       ELSE /\ acquire(lock)
            /\ IF is_closing \/ results_q = <<>>
                 THEN UNCHANGED <<results_q, delivered, sql>>
                 ELSE /\ delivered' = Append(delivered, Head(results_q))
                      /\ results_q' = Tail(results_q)
                      /\ sql' = IF /\ Head(results_q).type = "OpenDB"
                                   /\ has_error(Head(results_q))
                                  THEN None ELSE sql
  /\ UNCHANGED <<requests_q, lock, db, is_processing, is_closing, interrupted,
                 timer, submitted, dequeued, pushed>>
  /\ UNCHANGED wvars /\ UNCHANGED mvars /\ UNCHANGED tvars /\ UNCHANGED xvars

call_safely_close_db == TopCall("safely_close_db")

\* Application.safely_close_db: nothing to close; or the runner is busy and
\* the user is asked whether to interrupt it (interrupt_action); or close().
safely_close_db ==
  /\ mpc = "safely_close_db"
  /\ IF sql = None
       THEN Return(TRUE)
       ELSE /\ acquire(lock)
            /\ IF is_processing
                 THEN \/ Call("force_interrupt", "interrupt_action")
                         /\ UNCHANGED mrv
                      \/ Return(FALSE)
                 ELSE Call("close", "safely_closed") /\ UNCHANGED mrv
  /\ UNCHANGED <<requests_q, results_q, lock, db, is_processing, is_closing,
                 interrupted, timer, ncalls, calls, destroyed>>
  /\ UNCHANGED wvars /\ UNCHANGED hvars
  /\ UNCHANGED avars /\ UNCHANGED xvars

\* Application.interrupt_action has shown the outcome of force_interrupt:
\* safely_close_db returns False.
interrupt_action ==
  /\ mpc = "interrupt_action"
  /\ Return(FALSE)
  /\ UNCHANGED <<requests_q, results_q, lock, db, is_processing, is_closing,
                 interrupted, timer, ncalls, calls, destroyed>>
  /\ UNCHANGED wvars /\ UNCHANGED hvars
  /\ UNCHANGED avars /\ UNCHANGED xvars

\* Application.safely_close_db after close(): an error box and False, or
\* self.sql = None and True.
safely_closed ==
  /\ mpc = "safely_closed"
  /\ sql' = IF mrv THEN None ELSE sql
  /\ Return(mrv)
  /\ UNCHANGED <<requests_q, results_q, lock, db, is_processing, is_closing,
                 interrupted, timer, ncalls, calls, destroyed, notifs>>
  /\ UNCHANGED wvars /\ UNCHANGED hvars /\ UNCHANGED tvars /\ UNCHANGED xvars

\* Application.open_db, from new_action or open_action once close_action has
\* closed the database, or after a failed open: self.sql is a new SQLRunner,
\* with queues of its own, and its thread is started. The after_idle
\* callbacks the former runner scheduled stay scheduled.
App_open_db ==
  /\ mpc = "idle"
  /\ sql = None
  /\ ncalls < MaxCalls
  /\ ncalls' = ncalls + 1
  /\ sql' = "runner"
  /\ requests_q' = <<>>
  /\ results_q' = <<>>
  /\ lock' = "free"
  /\ db' = None
  /\ is_processing' = FALSE
  /\ is_closing' = FALSE
  /\ interrupted' = FALSE
  /\ wpc' = "open"
  /\ wreq' = NoRequest
  /\ wres' = NoResult
  /\ UNCHANGED <<mpc, mstack, mrv, timer, calls, destroyed, notifs>>
  /\ UNCHANGED hvars /\ UNCHANGED tvars /\ UNCHANGED xvars

App ==
  \/ put_request \/ on_sql_result \/ App_open_db
  \/ call_safely_close_db \/ safely_close_db \/ interrupt_action
  \/ safely_closed
  \/ close \/ close_set \/ join
  \/ force_interrupt \/ fi_while \/ fi_return \/ interrupt \/ interrupt_db

NextNotify == Worker \/ App

SpecNotify == Init /\ [][NextNotify]_vars

\* C11: once every notification scheduled by _push_result has run, the
\* results queue of the runner the application holds is empty: no pushed
\* Result is left behind, a close() being pending or not.
C11_NoStrandedResult == (sql # None /\ notifs = 0) => results_q = <<>>

\* ------------------------------------- a NamedTableView and its callers
\* The calls below leave the rest of the application as it is.
others == <<chan, before, rvars, avars, evars, fvars>>

\* The positions the scrollbar reports to lazy_load: below, at and above
\* its two thresholds.
Scrolls ==
  {<<Fraction(1, 5), Fraction(1, 2)>>, <<Fraction(1, 5), Fraction(4, 5)>>,
   <<Fraction(1, 2), Fraction(4, 5)>>, <<Fraction(3, 10), Fraction(7, 10)>>}


InitView ==
  /\ SQLRunner_init
  /\ sql = "runner"
  /\ TablesIdle
  /\ FunIdle
  /\ EatIdle
  /\ ViewIdle

\* A new view replaces the old one (on_sql_Schema makes one per table).
View_init ==
  /\ table_view' = NamedTableView
  /\ fetched' = <<>>
  /\ last' = Last("__init__", FALSE, NamedTableView)
  /\ trip' = NoTrip
  /\ UNCHANGED <<saved, saved_rows>>
  /\ UNCHANGED others

\* insert is called with the rows of a ViewTable result, which lazy_load
\* or restore_state asked for: the limit is set. A new view that has just
\* restored a snapshot may get the full result of its fetch (the table has
\* the rows asked for).
View_insert ==
  /\ table_view.max_window_size # NoInt
  /\ \E offset \in 0..MaxOffset, nrows \in 0..MaxBatch :
    LET inside == /\ nrows > 0
                  /\ table_view.begin_window <= offset
                  /\ offset + nrows <= table_view.end_window
    IN /\ table_view' = insert(table_view, Rows(offset, nrows), offset)
       /\ fetched' = <<>>
       /\ last' = Last("insert", inside,
                       IF inside THEN table_view ELSE NamedTableView)
       /\ trip' = IF /\ trip.stage = "restored"
                     /\ fetched # <<>>
                     /\ offset = fetched[1].offset
                     /\ nrows = fetched[1].limit
                    THEN [trip EXCEPT !.stage = "merged"]
                    ELSE NoTrip
       /\ UNCHANGED <<saved, saved_rows>>
  /\ UNCHANGED others

\* The tree calls yscrollcommand; Tk has delivered <Configure> before, so
\* that max_window_size and inc_limit are set.
View_lazy_load ==
  /\ table_view.max_window_size # NoInt
  /\ \E scroll \in Scrolls :
       LET r == lazy_load(table_view, scroll[1], scroll[2])
       IN /\ table_view' = r.view
          /\ fetched' = r.fetched
  /\ last' = Last("lazy_load", FALSE, NamedTableView)
  /\ trip' = NoTrip
  /\ UNCHANGED <<saved, saved_rows>>
  /\ UNCHANGED others

\* <Configure> with the height of the tree.
View_on_tree_configure ==
  /\ \E height \in 0..MaxHeight :
       table_view' = on_tree_configure(table_view, height)
  /\ fetched' = <<>>
  /\ last' = Last("on_tree_configure", FALSE, NamedTableView)
  /\ trip' = NoTrip
  /\ UNCHANGED <<saved, saved_rows>>
  /\ UNCHANGED others

View_clear_all ==
  /\ table_view' = clear_all(table_view)
  /\ fetched' = <<>>
  /\ last' = Last("clear_all", FALSE, NamedTableView)
  /\ trip' = NoTrip
  /\ UNCHANGED <<saved, saved_rows>>
  /\ UNCHANGED others

\* save_state: the snapshot is kept (table_view_saved_states) until it is
\* restored, with the rows the view held when it was taken.
View_save_state ==
  /\ saved = NoState
  /\ saved' = save_state(table_view)
  /\ saved_rows' = table_view.tree
  /\ fetched' = <<>>
  /\ last' = Last("save_state", FALSE, NamedTableView)
  /\ trip' = NoTrip
  /\ UNCHANGED table_view
  /\ UNCHANGED others

\* restore_state with the snapshot kept; on a new view this starts the
\* round trip of the snapshot.
View_restore_state ==
  /\ saved # NoState
  /\ LET r == restore_state(table_view, saved)
     IN /\ table_view' = r.view
        /\ fetched' = r.fetched
  /\ last' = Last("restore_state", FALSE, NamedTableView)
  /\ trip' = IF table_view = NamedTableView /\ ~is_empty(saved)
               THEN [stage |-> "restored", state |-> saved,
                     rows |-> saved_rows]
               ELSE NoTrip
  /\ saved' = NoState
  /\ saved_rows' = <<>>
  /\ UNCHANGED others

NextView ==
  \/ View_init \/ View_insert \/ View_lazy_load \/ View_on_tree_configure
  \/ View_clear_all \/ View_save_state \/ View_restore_state

SpecView == InitView /\ [][NextView]_vars

\* C12: after insert returns, the window holds at most max_window_size
\* rows, whatever the window, the batch and the limit were.
C12_WindowWithinLimit ==
  (last.op = "insert" /\ table_view.max_window_size # NoInt)
    => nb_view_items(table_view) <= table_view.max_window_size

\* C13: begin_window <= end_window in every state of a view, so that the
\* assertion of clear_all holds whenever it is called.
C13_BeginAtMostEnd == table_view.begin_window <= table_view.end_window

\* clear_all has been called on a window that does not start at offset 0.
C13_Witness ==
  /\ last.op = "clear_all"
  /\ table_view.begin_window > 0
  /\ table_view.end_window = table_view.begin_window

\* C14: an insert whose batch is not empty and lies inside the window leaves
\* the view as it was: window, rows and previous_visible_item.
C14_InsideBatchIsNoOp ==
  (last.op = "insert" /\ last.inside) => table_view = last.pre

\* A batch inside a window that does not start at offset 0 has been merged.
C14_Witness ==
  /\ last.op = "insert"
  /\ last.inside
  /\ table_view.begin_window > 0

\* C15: a snapshot of a window [b,e), b < e, restored into a new view, gives
\* the window [b,e) with the same rows once the result of the fetch made by
\* restore_state is merged.
C15_RoundTrip ==
  (trip.stage = "merged" /\ trip.state.begin_window < trip.state.end_window)
    => /\ table_view.begin_window = trip.state.begin_window
       /\ table_view.end_window = trip.state.end_window
       /\ table_view.tree = trip.rows

\* The round trip of a window that does not start at offset 0 is complete.
C15_Witness ==
  /\ trip.stage = "merged"
  /\ 0 < trip.state.begin_window
  /\ trip.state.begin_window + 1 < trip.state.end_window

\* C18: every fetch made by lazy_load asks for
\* max(max_window_size - nb_view_items, max_window_size // 4) rows.
C18_FetchSize ==
  last.op = "lazy_load" =>
    \A k \in 1..Len(fetched) :
      LET rest == table_view.max_window_size - nb_view_items(table_view)
          inc == table_view.max_window_size \div 4
      IN fetched[k].limit = IF rest < inc THEN inc ELSE rest

\* ------------------------------ Application: one table and its refresh
\* Request.LoadSchema, as load_tables puts it.
LoadSchema == [type |-> "LoadSchema", offset |-> 0, limit |-> 0]

\* The rows SELECT * ... LIMIT limit OFFSET offset finds in the table; for
\* SQLite a negative LIMIT is no limit and a negative OFFSET is 0.
select(offset, limit) ==
  LET skipped == IF offset < 0 THEN 0 ELSE offset
  IN Rows(skipped,
          IF skipped >= TableSize THEN 0
          ELSE IF limit < 0 \/ skipped + limit > TableSize
                 THEN TableSize - skipped
          ELSE limit)

\* Fetcher.__call__ for each fetch of a call, in order: put_request.
put_all(q, requests) == q \o requests

\* A ViewTable request is in the queues, or its Result is.
ViewTablePending(q) == \E k \in 1..Len(q) : q[k].type = "ViewTable"

\* The database is open and its first Schema result has been handled: the
\* table has a new view and nothing is saved. The requests and Results of
\* the table travel in order (chan), as the runner hands them over.
InitApp ==
  /\ SQLRunner_init
  /\ sql = "runner"
  /\ TablesIdle
  /\ FunIdle
  /\ EatIdle
  /\ ViewIdle

\* The tree of the table calls yscrollcommand (the user scrolls): lazy_load,
\* and put_request for each fetch. The window that stood before the first
\* refresh no longer has to come back.
App_lazy_load ==
  /\ TableName \in table_views
  /\ table_view.max_window_size # NoInt
  /\ Len(chan) < MaxPending
  /\ \E scroll \in Scrolls :
       LET r == lazy_load(table_view, scroll[1], scroll[2])
       IN /\ table_view' = r.view
          /\ chan' = put_all(chan, r.fetched)
  /\ last' = Last("lazy_load", FALSE, NamedTableView)
  /\ before' = <<>>
  /\ UNCHANGED <<saved, saved_rows, trip, fetched>>
  /\ UNCHANGED rvars /\ UNCHANGED avars /\ UNCHANGED evars
  /\ UNCHANGED fvars

\* <Configure> reaches the tree of the view; the window keeps its height.
App_on_tree_configure ==
  /\ TableName \in table_views
  /\ table_view' = on_tree_configure(table_view, ScreenHeight)
  /\ last' = Last("on_tree_configure", FALSE, NamedTableView)
  /\ UNCHANGED <<saved, saved_rows, trip, fetched, chan, before>>
  /\ UNCHANGED rvars /\ UNCHANGED avars /\ UNCHANGED evars
  /\ UNCHANGED fvars

\* save_table_view_states: a state for each view there is.
save_table_view_states ==
  IF TableName \in table_views THEN save_state(table_view) ELSE NoState

\* Application.refresh_action: save_table_view_states, then load_tables.
refresh_action ==
  /\ sql # None
  /\ Len(chan) < MaxPending
  /\ saved' = save_table_view_states
  /\ chan' = put(chan, LoadSchema)
  /\ before' = IF before = <<>>
                 THEN <<table_view.begin_window, table_view.end_window>>
                 ELSE before
  /\ last' = Last("refresh_action", FALSE, NamedTableView)
  /\ UNCHANGED <<table_view, saved_rows, trip, fetched>>
  /\ UNCHANGED rvars /\ UNCHANGED avars /\ UNCHANGED evars
  /\ UNCHANGED fvars

\* Application.on_sql_Schema for a Result without error: unload_tables, a
\* new view for the table, restore_state if a state is saved for it, and
\* table_view_saved_states = {}.
on_sql_Schema ==
  /\ chan # <<>>
  /\ Head(chan).type = "LoadSchema"
  /\ LET r == IF TableName \in db_tables /\ saved # NoState
                THEN restore_state(NamedTableView, saved)
                ELSE [view |-> NamedTableView, fetched |-> <<>>]
     IN /\ table_view' = r.view
        /\ chan' = put_all(Tail(chan), r.fetched)
  /\ table_views' = db_tables
  /\ UNCHANGED db_tables
  /\ saved' = NoState
  /\ last' = Last("on_sql_Schema", FALSE, NamedTableView)
  /\ UNCHANGED <<saved_rows, trip, fetched, before>>
  /\ UNCHANGED rvars /\ UNCHANGED <<notifs, sql>> /\ UNCHANGED evars
  /\ UNCHANGED fvars

\* Application.on_sql_TableRows: table_views[result.request.table_name],
\* a KeyError without a view for the table; then, the database file being
\* there and not modified from outside, refresh_action for a Result with an
\* error (the table is not in the database) and otherwise insert into the
\* view, which <Configure> or restore_state has given its limit.
on_sql_TableRows ==
  /\ chan # <<>>
  /\ Head(chan).type = "ViewTable"
  /\ IF TableName \notin table_views
       THEN /\ chan' = Tail(chan)
            /\ last' = Last("KeyError", FALSE, NamedTableView)
            /\ UNCHANGED <<table_view, saved, before>>
       ELSE IF TableName \notin db_tables
         THEN /\ saved' = save_table_view_states
              /\ chan' = put(Tail(chan), LoadSchema)
              /\ before' = IF before = <<>>
                             THEN <<table_view.begin_window,
                                    table_view.end_window>>
                             ELSE before
              /\ last' = Last("refresh_action", FALSE, NamedTableView)
              /\ UNCHANGED table_view
         ELSE /\ table_view.max_window_size # NoInt
              /\ table_view' = insert(table_view,
                                      select(Head(chan).offset,
                                             Head(chan).limit),
                                      Head(chan).offset)
              /\ chan' = Tail(chan)
              /\ last' = Last("insert", FALSE, NamedTableView)
              /\ UNCHANGED <<saved, before>>
  /\ UNCHANGED <<saved_rows, trip, fetched>>
  /\ UNCHANGED rvars /\ UNCHANGED avars /\ UNCHANGED evars
  /\ UNCHANGED fvars

NextApp ==
  \/ App_lazy_load \/ App_on_tree_configure \/ refresh_action
  \/ on_sql_Schema \/ on_sql_TableRows

SpecApp == InitApp /\ [][NextApp]_vars

\* C16: for a database that is not modified, once refresh_action has been
\* called any number of times and every pending Result has been handled,
\* the view of the table has the window it had before the first refresh.
C16_RefreshKeepsWindow ==
  (before # <<>> /\ chan = <<>>)
    => <<table_view.begin_window, table_view.end_window>> = before

\* C17: a lazy_load call made while a ViewTable request of the table is
\* pending puts no further request.
C17_NoFetchWhilePending ==
  [][(last'.op = "lazy_load" /\ ViewTablePending(chan)) => chan' = chan]_vars

\* ------------------------------------------- NamedTableView.insert alone
\* The view is configured, scrolled, rebuilt by a refresh and given
\* batches; each insert is recorded with the view it found.
InitMerge ==
  /\ SQLRunner_init
  /\ sql = "runner"
  /\ TablesIdle
  /\ FunIdle
  /\ EatIdle
  /\ ViewIdle

\* <Configure> on the tree.
Merge_on_tree_configure ==
  /\ \E height \in 0..MaxHeight :
       table_view' = on_tree_configure(table_view, height)
  /\ merge' = NoMerge
  /\ UNCHANGED <<saved, saved_rows, fetched, last, trip>>
  /\ UNCHANGED <<chan, before, rvars, avars, evars>>
  /\ UNCHANGED <<gvars, svars, qvars>>

\* The user scrolls: the scrollbar reports its new position.
Merge_lazy_load ==
  /\ table_view.max_window_size # NoInt
  /\ \E ys \in Scrolls :
       table_view' = lazy_load(table_view, ys[1], ys[2]).view
  /\ merge' = NoMerge
  /\ UNCHANGED <<saved, saved_rows, fetched, last, trip>>
  /\ UNCHANGED <<chan, before, rvars, avars, evars>>
  /\ UNCHANGED <<gvars, svars, qvars>>

\* refresh_action then on_sql_Schema: the state of the view is saved and a
\* new view restores it.
Merge_refresh ==
  /\ table_view.max_window_size # NoInt
  /\ table_view' = restore_state(NamedTableView, save_state(table_view)).view
  /\ merge' = NoMerge
  /\ UNCHANGED <<saved, saved_rows, fetched, last, trip>>
  /\ UNCHANGED <<chan, before, rvars, avars, evars>>
  /\ UNCHANGED <<gvars, svars, qvars>>

\* on_sql_TableRows gives the rows of a ViewTable result to insert.
Merge_insert ==
  /\ table_view.max_window_size # NoInt
  /\ \E offset \in 0..MaxOffset, nrows \in 0..MaxBatch :
       /\ table_view' = insert(table_view, Rows(offset, nrows), offset)
       /\ merge' = Merge(table_view, offset, nrows,
                         branch(table_view, Rows(offset, nrows), offset),
                         tree_see(table_view, Rows(offset, nrows), offset))
  /\ UNCHANGED <<saved, saved_rows, fetched, last, trip>>
  /\ UNCHANGED <<chan, before, rvars, avars, evars>>
  /\ UNCHANGED <<gvars, svars, qvars>>

NextMerge ==
  \/ Merge_on_tree_configure
  \/ Merge_lazy_load
  \/ Merge_refresh
  \/ Merge_insert

SpecMerge == InitMerge /\ [][NextMerge]_vars

\* The items of the tree for the rows at offsets from..to-1.
items(from, to) ==
  [j \in 1..(to - from) |-> [iid |-> from + j - 1, row |-> from + j - 1]]
Max2(a, b) == IF a > b THEN a ELSE b
Min2(a, b) == IF a < b THEN a ELSE b
first_of_merge == merge.offset
last_of_merge == merge.offset + merge.nrows

\* C29: an insert given zero rows, at any offset and whatever the window
\* (also [0,0)), leaves begin_window, end_window, the resident rows,
\* max_window_size and the pending restore target as they were.
C29_NoRowNoChange ==
  (merge.branch # None /\ merge.nrows = 0) => table_view = merge.pre
C29_Witness ==
  /\ merge.branch = "return"
  /\ merge.offset > 0
  /\ is_empty(merge.pre)
  /\ merge.pre.previous_visible_item # NoInt
  /\ table_view.begin_window = 0 /\ table_view.end_window = 0

\* The last k items of a tree, and the first k.
last_items(tree, k) == SubSeq(tree, Len(tree) - k + 1, Len(tree))
first_items(tree, k) == SubSeq(tree, 1, k)

\* C26: an insert whose batch is not empty, is not contained in the window
\* and starts at first with begin_window <= first <= end_window appends
\* exactly the rows at offsets old end_window..last-1; afterwards
\* end_window = last and begin_window = max(old begin_window,
\* last - max_window_size), the rows evicted being the oldest ones. The
\* first batch merged into the empty window [0,0) takes the same branch.
C26_Append ==
  LET pre == merge.pre
      grown == pre.tree \o items(pre.end_window, last_of_merge)
  IN /\ ( /\ merge.branch # None
          /\ merge.nrows > 0
          /\ ~(pre.begin_window <= first_of_merge
               /\ last_of_merge <= pre.end_window)
          /\ pre.begin_window <= first_of_merge
          /\ first_of_merge <= pre.end_window )
        => /\ merge.branch = "append"
           /\ table_view.end_window = last_of_merge
           /\ table_view.begin_window =
                Max2(pre.begin_window, last_of_merge - pre.max_window_size)
           /\ table_view.tree = last_items(grown, nb_view_items(table_view))
     /\ (merge.branch # None /\ merge.nrows > 0 /\ is_empty(pre))
        => /\ merge.branch = "append"
           /\ table_view.end_window = last_of_merge
           /\ table_view.begin_window =
                Max2(first_of_merge, last_of_merge - pre.max_window_size)
C26_Witness ==
  /\ merge.branch = "append"
  /\ merge.pre.max_window_size = 4
  /\ merge.pre.begin_window = 0 /\ merge.pre.end_window = 4
  /\ merge.offset = 3 /\ merge.nrows = 3
  /\ table_view.begin_window = 2 /\ table_view.end_window = 6

\* C27: an insert whose batch starts before the window (first <
\* begin_window) and ends at last with begin_window <= last <= end_window
\* prepends exactly the rows at offsets first..old begin_window-1;
\* afterwards begin_window = first and end_window = min(old end_window,
\* first + max_window_size), the rows evicted being those at the end.
C27_Prepend ==
  LET pre == merge.pre
      grown == items(first_of_merge, pre.begin_window) \o pre.tree
  IN ( /\ merge.branch # None
       /\ merge.nrows > 0
       /\ first_of_merge < pre.begin_window
       /\ pre.begin_window <= last_of_merge
       /\ last_of_merge <= pre.end_window )
     => /\ merge.branch = "prepend"
        /\ table_view.begin_window = first_of_merge
        /\ table_view.end_window =
             Min2(pre.end_window, first_of_merge + pre.max_window_size)
        /\ table_view.tree = first_items(grown, nb_view_items(table_view))
C27_Witness ==
  /\ merge.branch = "prepend"
  /\ merge.pre.max_window_size = 4
  /\ merge.pre.begin_window = 2 /\ merge.pre.end_window = 6
  /\ merge.offset = 0 /\ merge.nrows = 3
  /\ table_view.begin_window = 0 /\ table_view.end_window = 4

\* Every item of the tree before is an item of the tree after.
kept(before_tree, after_tree) ==
  \A k \in 1..Len(before_tree) :
    \E j \in 1..Len(after_tree) : after_tree[j] = before_tree[k]

\* C28: insert discards the window and replaces it (begin_window = first,
\* end_window = last, the resident rows exactly the batch) exactly when
\* the window is not [0,0) and the batch, not empty, is separated from it
\* by a gap (last < begin_window or first > end_window) or strictly covers
\* it on both sides (first < begin_window and last > end_window). In every
\* other case resident rows leave only by eviction.
C28_ReplaceIff ==
  LET pre == merge.pre
      apart == \/ last_of_merge < pre.begin_window
               \/ first_of_merge > pre.end_window
      covers == /\ first_of_merge < pre.begin_window
                /\ last_of_merge > pre.end_window
  IN merge.branch # None
     => /\ (merge.branch = "replace")
           <=> (~is_empty(pre) /\ merge.nrows > 0 /\ (apart \/ covers))
        /\ merge.branch = "replace"
           => /\ table_view.begin_window = first_of_merge
              /\ table_view.end_window = last_of_merge
              /\ table_view.tree = items(first_of_merge, last_of_merge)
        /\ merge.branch # "replace"
           => \/ kept(pre.tree, table_view.tree)
              \/ nb_view_items(table_view) = pre.max_window_size
C28_Witness ==
  /\ merge.branch = "replace"
  /\ merge.pre.begin_window = 0 /\ merge.pre.end_window = 2
  /\ merge.offset = 3 /\ merge.nrows = 2
  /\ table_view.begin_window = 3 /\ table_view.end_window = 5

MaxCols == 3
\* Column names: plain ones, and ones spelt like the ids get_column_id
\* makes.
ColumnNames ==
  {<<"a">>, <<"b">>, <<"a", "<", "1", ">">>, <<"a", "<", "2", ">">>,
   <<"a", "<", "1", ">", "<", "1", ">">>}

InitIds ==
  /\ SQLRunner_init
  /\ sql = "runner"
  /\ TablesIdle
  /\ MergeIdle /\ RxIdle /\ QueryIdle
  /\ EatIdle
  /\ ViewIdle
  /\ description \in UNION {[1..k -> ColumnNames] : k \in 0..MaxCols}
  /\ columns = NoColumns

\* column_ids, column_names = get_column_ids(cursor)
Ids_get_column_ids ==
  /\ ~columns.returned
  /\ columns' = get_column_ids(description)
  /\ UNCHANGED description
  /\ UNCHANGED <<rvars, avars, evars, vwvars, merge, svars, qvars>>

NextIds == Ids_get_column_ids

SpecIds == InitIds /\ [][NextIds]_vars

\* C24: for any list of column names, repeated names and names spelt like
\* a generated id included, get_column_ids returns one id per column, the
\* ids pairwise distinct, and the names unchanged in the same order.
C24_DistinctIds ==
  columns.returned
  => /\ Len(columns.ids) = Len(description)
     /\ \A j, k \in 1..Len(columns.ids) :
          j # k => columns.ids[j] # columns.ids[k]
     /\ columns.names = description
C24_Witness ==
  /\ columns.returned
  /\ description = <<<<"a">>, <<"a">>, <<"a", "<", "1", ">">>>>
  /\ columns.ids = <<<<"a">>, <<"a", "<", "1", ">">>,
                     <<"a", "<", "1", ">", "<", "1", ">">>>>

\* ------------------------------------- ColorSyntax.SQL_STRING searched
MaxText == 7
Symbols == {"'", "a", " "}

InitRx ==
  /\ SQLRunner_init
  /\ sql = "runner"
  /\ TablesIdle
  /\ MergeIdle /\ IdsIdle /\ QueryIdle
  /\ EatIdle
  /\ ViewIdle
  /\ text \in UNION {[1..k -> Symbols] : k \in 0..MaxText}
  /\ mo = NotSearched

\* mo = rx.search(text)
Rx_search ==
  /\ ~mo.returned
  /\ mo' = search(text)
  /\ UNCHANGED text
  /\ UNCHANGED <<rvars, avars, evars, vwvars, merge, gvars, qvars>>

NextRx == Rx_search

SpecRx == InitRx /\ [][NextRx]_vars

\* The symbols of s from i to e-1 are doubled quotes and symbols other than
\* the quote.
RECURSIVE literal_body(_, _, _)
literal_body(s, i, e) ==
  IF i >= e THEN i = e
  ELSE IF s[i] # "'" THEN literal_body(s, i + 1, e)
  ELSE i + 1 < e /\ s[i + 1] = "'" /\ literal_body(s, i + 2, e)

\* A string literal spans s[p..e], p the first quote of s, and a symbol
\* that is not a quote follows it.
literal_at_first_quote(s, p, e) ==
  /\ p < e /\ e < Len(s)
  /\ s[p] = "'" /\ s[e] = "'"
  /\ \A q \in 1..(p - 1) : s[q] # "'"
  /\ literal_body(s, p + 1, e)
  /\ s[e + 1] # "'"

\* C25: SQL_STRING searched in a text matches, from the first single quote,
\* one whole string literal in which a doubled quote is an escaped quote:
\* when a well-formed literal is followed by a symbol that is not a quote,
\* the match is exactly that literal and stops before any later literal.
C25_MatchesLiteral ==
  mo.returned
  => \A p, e \in 1..Len(text) :
       literal_at_first_quote(text, p, e)
       => mo.found /\ mo.start = p /\ mo.stop = e + 1
          /\ mo.group = SubSeq(text, p, e)
C25_Witness ==
  /\ mo.returned
  /\ text = <<"'", "a", "'", "'", "'", " ", "'">>
  /\ mo.group = <<"'", "a", "'", "'", "'">>

\* ------------------------------------------- _handle_RunQuery in detail
MaxArgs == 2          \* arguments written after the verb of a directive
MaxSelected == 2      \* rows the table t has for a SELECT
EatDefault == 1000    \* eat_atmost(it, n=1000)

\* An Optional value: None, or the value.
Nothing == <<>>
Some(value) == <<value>>

\* An exception: its class and, for a DirectiveError, message, argv and
\* directive (None until set).
NoWord == <<None>>
NoArgv == <<NoWord>>
Exception(cls) ==
  [cls |-> cls, message |-> <<"", 0>>, argv |-> NoArgv, directive |-> NoWord]
NoException == Exception("ok")

\* DirectiveError.__init__(message, argv=None, directive=None)
DirectiveError(message, argv, directive) ==
  [cls |-> "DirectiveError", message |-> message, argv |-> argv,
   directive |-> IF directive = NoWord /\ argv # NoArgv THEN argv[1]
                 ELSE directive]

\* DirectiveNotFound.__init__(argv): super().__init__("", argv=argv)
DirectiveNotFound(argv) ==
  [DirectiveError(<<"", 0>>, argv, NoWord) EXCEPT !.cls = "DirectiveNotFound"]

\* The payload a handler returns: dict() leaves every field of the
\* QueryResult at its default.
Payload(rows, is_truncated, column_ids, column_names) ==
  [rows |-> rows, truncated |-> is_truncated, column_ids |-> column_ids,
   column_names |-> column_names]
dict == Payload(Nothing, FALSE, Nothing, Nothing)

\* What a call made: the exception raised, the payload returned, the calls
\* made on the connection and on files, and cursor.description ("None",
\* "set", or "no cursor").
Outcome(raised, payload, made, desc) ==
  [raised |-> raised, payload |-> payload,
   trace |-> [calls |-> made, description |-> desc, raised |-> raised.cls]]

\* eat_atmost: the for loop over the rows the cursor has left; the row
\* taken when i >= n is dropped by the break.
RECURSIVE eat_atmost_for(_, _, _, _)
eat_atmost_for(it, i, n, acc) ==
  IF it = <<>> THEN [it |-> it, objects |-> acc]
  ELSE IF i >= n THEN [it |-> Tail(it), objects |-> acc]
  ELSE eat_atmost_for(Tail(it), i + 1, n, Append(acc, Head(it)))

\* eat_atmost(it, n): then next(it) tells whether a row was left.
eat_atmost(it, n) ==
  LET after == eat_atmost_for(it, 0, n, <<>>)
  IN [objects |-> after.objects, truncated |-> after.it # <<>>]

\* A cursor: its description (None, or the column names) and its rows.
NewCursor(desc, rows) == [description |-> desc, rows |-> rows]

\* self._db.execute(statement): the cursors it may return; the statement
\* is known by its text without the closing semicolons and blanks. Any
\* other text is an error for sqlite3.
cursors(statement) ==
  LET sql_text == rstrip(statement, {";", " "})
  IN CASE sql_text = <<"SELECT 1">> ->
            {NewCursor(Some(<<<<"1">>>>), <<<<1>>>>)}
       [] sql_text = <<"SELECT a, a FROM t">> ->
            {NewCursor(Some(<<<<"a">>, <<"a">>>>),
                       [j \in 1..L |-> <<j, j>>]) : L \in 0..MaxSelected}
       [] sql_text = <<"DELETE FROM t WHERE id=1">> ->
            {NewCursor(Nothing, <<>>)}
       [] sql_text = <<>> -> {NewCursor(Nothing, <<>>)}
       [] OTHER -> {}

\* _handle_RunQuery that builds rows for every cursor.
payload_of_always_rows(cursor) ==
  Payload(Some(cursor.rows), FALSE, Nothing, Nothing)

\* _handle_RunQuery, once the statement has executed: "if
\* cursor.description is None: return dict()", else the rows eaten.
payload_of(cursor) ==
  IF cursor.description = Nothing THEN dict
  ELSE LET columns_of == get_column_ids(cursor.description[1])
           eaten == eat_atmost(cursor.rows, EatDefault)
       IN Payload(Some(eaten.objects), eaten.truncated,
                  Some(columns_of.ids), Some(columns_of.names))

\* _execute(query) and what follows it in _handle_RunQuery: sqlite3 may
\* refuse the statement or fail while its rows are read.
execute_query(statement) ==
  {Outcome(Exception("sqlite3.Error"), dict, <<"execute">>, "no cursor")}
  \cup {Outcome(NoException, payload_of(cursor), <<"execute">>,
                IF cursor.description = Nothing THEN "None" ELSE "set")
          : cursor \in cursors(statement)}
  \cup {Outcome(Exception("sqlite3.Error"), dict, <<"execute">>, "set")
          : cursor \in {c \in cursors(statement) : c.description # Nothing}}

\* _handle_directive_run, _handle_directive_dump and
\* _handle_directive_drop_all_tables
handle_directive_run(argv) ==
  IF Len(argv) # 2
    THEN {Outcome(DirectiveError(<<"expects 1 argument, not", Len(argv)>>,
                                 NoArgv, NoWord),
                  dict, <<>>, "no cursor")}
  ELSE {Outcome(Exception("OSError"), dict, <<"open">>, "no cursor"),
        Outcome(Exception("sqlite3.Error"), dict,
                <<"open", "executescript">>, "no cursor"),
        Outcome(NoException, dict, <<"open", "executescript">>, "no cursor")}

handle_directive_dump(argv) ==
  IF Len(argv) # 2
    THEN {Outcome(DirectiveError(<<"expects 1 argument, not", Len(argv)>>,
                                 NoArgv, NoWord),
                  dict, <<>>, "no cursor")}
  ELSE {Outcome(Exception("OSError"), dict, <<"open">>, "no cursor"),
        Outcome(Exception("sqlite3.Error"), dict, <<"open", "iterdump">>,
                "no cursor"),
        Outcome(NoException, dict, <<"open", "iterdump", "write">>,
                "no cursor")}

handle_directive_drop_all_tables(argv) ==
  IF Len(argv) # 1
    THEN {Outcome(DirectiveError(<<"expects no argument, not", Len(argv)>>,
                                 NoArgv, NoWord),
                  dict, <<>>, "no cursor")}
  ELSE {Outcome(Exception("sqlite3.Error"), dict, <<"list_tables">>,
                "no cursor"),
        Outcome(NoException, dict, <<"list_tables", "drop table">>,
                "no cursor")}

\* _handle_directive(argv, request): getattr finds the handler of the
\* directive or DirectiveNotFound is raised; a DirectiveError raised by the
\* handler gets the directive and argv.
handle_directive(argv) ==
  LET directive == Tail(argv[1])
      outs == CASE directive = <<"run">> -> handle_directive_run(argv)
                [] directive = <<"dump">> -> handle_directive_dump(argv)
                [] directive = <<"drop_all_tables">> ->
                     handle_directive_drop_all_tables(argv)
  IN IF ~has_directive(directive)
       THEN {Outcome(DirectiveNotFound(argv), dict, <<>>, "no cursor")}
     ELSE {IF o.raised.cls = "DirectiveError"
             THEN Outcome([o.raised EXCEPT !.directive = directive,
                                           !.argv = argv],
                          o.payload, o.trace.calls, o.trace.description)
             ELSE o
           : o \in outs}

\* _handle_RunQuery(request), before the wrapper of @handler.
handle_RunQuery(request_query) ==
  IF Len(request_query) = 0
    THEN {Outcome(NoException, dict, <<>>, "no cursor")}
  ELSE LET stripped == strip(request_query)
       IN IF startswith_dot(stripped)
            THEN LET parsed == parse_directive(stripped)
                 IN IF parsed.raised # "ok"
                      THEN {Outcome(Exception(parsed.raised), dict, <<>>,
                                    "no cursor")}
                    ELSE handle_directive(parsed.argv)
          ELSE execute_query(stripped)

\* The QueryResult the wrapper of @handler(result_type=QueryResult) builds
\* from what _handle_RunQuery did: the field of the exception by its class,
\* the payload an empty dict if it raised.
QueryResult(request_query, o) ==
  LET r == handler("QueryResult", Request(1, "RunQuery", request_query),
                   o.raised.cls)
  IN [request |-> request_query,
      error |-> IF r.error # None THEN o.raised ELSE NoException,
      warning |-> IF r.warning # None THEN o.raised ELSE NoException,
      internal_error |->
        IF r.internal_error # None THEN o.raised ELSE NoException,
      rows |-> o.payload.rows, truncated |-> o.payload.truncated,
      column_ids |-> o.payload.column_ids,
      column_names |-> o.payload.column_names]

\* The texts given to RunQuery: blanks, a directive or a statement, up to
\* MaxArgs arguments (plain, quoted, or with a quote left open), the end.
Leads == {<<>>, <<" ">>}
Heads ==
  {<<".", verb>> : verb \in {"run", "dump", "drop_all_tables", "frobnicate"}}
  \cup {<<".">>, <<>>, <<"SELECT 1">>, <<"SELECT a, a FROM t">>,
        <<"DELETE FROM t WHERE id=1">>}
ArgForms ==
  {<<" ", "f">>, <<" ", "'", "f", " ", "f", "'">>, <<" ", "'", "f">>}
RECURSIVE ArgLists(_)
ArgLists(k) ==
  IF k = 0 THEN {<<>>}
  ELSE ArgLists(k - 1)
       \cup {args \o form : args \in ArgLists(k - 1), form \in ArgForms}
Trails == {<<>>, <<";">>, <<" ", ";">>}
Texts ==
  {lead \o head \o args \o trail :
     lead \in Leads, head \in Heads, args \in ArgLists(MaxArgs),
     trail \in Trails}

InitQuery ==
  /\ SQLRunner_init
  /\ sql = "runner"
  /\ TablesIdle
  /\ MergeIdle /\ IdsIdle /\ RxIdle
  /\ EatIdle
  /\ ViewIdle
  /\ QueryIdle

\* put_request(Request.RunQuery(query)), and run() takes it.
Query_put_request ==
  /\ qpc = "idle"
  /\ \E request_query \in Texts : query' = request_query
  /\ qresults' = <<>>
  /\ trace' = NoTrace
  /\ qpc' = "handle"
  /\ UNCHANGED <<rvars, avars, evars, vwvars, merge, gvars, svars>>

\* run(): result = handler(request), then _push_result(result).
Query_handle ==
  /\ qpc = "handle"
  /\ \E o \in handle_RunQuery(query) :
       /\ qresults' = Append(qresults, QueryResult(query, o))
       /\ trace' = o.trace
  /\ qpc' = "idle"
  /\ UNCHANGED query
  /\ UNCHANGED <<rvars, avars, evars, vwvars, merge, gvars, svars>>

NextQuery == Query_put_request \/ Query_handle

SpecQuery == InitQuery /\ [][NextQuery]_vars

\* The request has been handled.
handled == qpc = "idle" /\ qresults # <<>>
no_failure(r) ==
  /\ r.error = NoException
  /\ r.warning = NoException
  /\ r.internal_error = NoException

\* C21: a RunQuery whose statement executes without failure and has no
\* column description gives a QueryResult with rows = None and no failure
\* field; one whose statement executes without failure and has a column
\* description gives rows as a list, never None; SELECT 1 gives
\* rows = [(1,)] and truncated = False.
C21_RowsNoneIffNoDescription ==
  handled
  => LET r == qresults[1]
     IN /\ (trace.raised = "ok" /\ trace.description = "None")
           => (r.rows = Nothing /\ no_failure(r))
        /\ (trace.raised = "ok" /\ trace.description = "set")
           => (r.rows # Nothing /\ no_failure(r))
        /\ (trace.raised = "ok" /\ strip(query) = <<"SELECT 1">>)
           => (r.rows = Some(<<<<1>>>>) /\ r.truncated = FALSE)
C21_Witness ==
  /\ handled
  /\ trace.raised = "ok"
  /\ query = <<"SELECT a, a FROM t">>
  /\ qresults[1].rows = Some(<<>>)

\* The verb a directive text names: the symbols between its dot and the
\* first blank, the text taken without the blanks around it and without
\* the closing semicolons; and whether anything but blanks follows it.
RECURSIVE first_word(_)
first_word(s) ==
  IF s = <<>> \/ Head(s) = " " THEN <<>>
  ELSE <<Head(s)>> \o first_word(Tail(s))
directive_text(request_query) == rstrip(strip(request_query), {";"})
verb_of(request_query) == first_word(Tail(directive_text(request_query)))
arguments_given(request_query) ==
  LET s == directive_text(request_query)
  IN \E k \in (Len(verb_of(request_query)) + 2)..Len(s) : s[k] # " "
is_directive(request_query) == startswith_dot(strip(request_query))

\* C22: a RunQuery whose trimmed text begins with '.' and whose verb is
\* not run, dump or drop_all_tables gets exactly one QueryResult, whose
\* error is a DirectiveNotFound naming the verb, with warning and
\* internal_error unset and rows None; nothing is executed against the
\* connection and the runner takes the next request.
C22_UnknownVerbNotFound ==
  (handled /\ is_directive(query) /\ ~has_directive(verb_of(query)))
  => LET r == qresults[1]
     IN /\ Len(qresults) = 1
        /\ r.error.cls = "DirectiveNotFound"
        /\ Tail(r.error.directive) = verb_of(query)
        /\ r.warning = NoException
        /\ r.internal_error = NoException
        /\ r.rows = Nothing
        /\ trace.calls = <<>>

\* C23: .run or .dump given a number of arguments other than one, and
\* .drop_all_tables given any argument, get a Result whose error is a
\* DirectiveError, not a DirectiveNotFound, that carries the verb and the
\* argument list; no part of the directive is performed.
C23_WrongArityDirectiveError ==
  LET parsed == parse_directive(strip(query))
      verb == verb_of(query)
      wrong_arity ==
        \/ /\ verb \in {<<"run">>, <<"dump">>}
           /\ parsed.raised = "ok"
           /\ Len(parsed.argv) - 1 # 1
        \/ /\ verb = <<"drop_all_tables">>
           /\ arguments_given(query)
  IN (handled /\ is_directive(query) /\ wrong_arity)
     => LET r == qresults[1]
        IN /\ r.error.cls = "DirectiveError"
           /\ r.error.directive = verb
           /\ parsed.raised = "ok" => r.error.argv = parsed.argv
           /\ trace.calls = <<>>

\* ------------------------------------------------ the rows of the view
\* C33: after any sequence of merges, evictions, clears and restores the
\* identifiers resident in the tree are exactly begin_window ..
\* end_window - 1, in the order of their offsets, and the row kept under
\* identifier k is the row its batch carried for table offset k.
C33_TreeIsWindow ==
  table_view.tree = items(table_view.begin_window, table_view.end_window)
C33_Witness ==
  /\ last.op = "insert"
  /\ table_view.begin_window = 1
  /\ table_view.end_window = 5
  /\ table_view.max_window_size = 4
  /\ table_view.tree = items(1, 5)

\* ------------------------------------------------ the fetches of lazy_load
\* The room lazy_load asks for: what the window lacks, one increment at least.
room ==
  Max2(table_view.max_window_size - nb_view_items(table_view),
       table_view.inc_limit)

\* The scrollbar is near the top of a window that does not start the table.
near_top == table_view.begin_window > 0 /\ at_most_02(table_view.ys[1])
near_bottom == at_least_08(table_view.ys[2])

\* C32: lazy_load fetches backward only when begin_window > 0 and the top
\* fraction is at most 0.2, and then exactly the rows
\* [max(0, begin_window - limit), begin_window); it fetches forward exactly
\* when the bottom fraction is at least 0.8, starting at end_window; one
\* call can do both.
C32_LazyLoadFetches ==
  last.op = "lazy_load" =>
    LET backward == IF near_top THEN 1 ELSE 0
        forward == IF near_bottom THEN 1 ELSE 0
    IN /\ Len(fetched) = backward + forward
       /\ near_top =>
            /\ fetched[1].offset = Max2(0, table_view.begin_window - room)
            /\ fetched[1].offset >= 0
            /\ fetched[1].offset + fetched[1].limit = table_view.begin_window
       /\ near_bottom =>
            fetched[Len(fetched)].offset = table_view.end_window
C32_Witness ==
  /\ last.op = "lazy_load"
  /\ near_top
  /\ near_bottom
  /\ Len(fetched) = 2
  /\ fetched[1].offset = 0
  /\ table_view.begin_window < room
C32_WitnessNone ==
  /\ last.op = "lazy_load"
  /\ ~at_most_02(table_view.ys[1])
  /\ ~near_bottom
  /\ fetched = <<>>

\* ------------------------------------------------ the pending restore target
\* The call just made on the view is op.
called(op) == last'.op = op

\* The call just made moved the window or changed its rows.
window_changes ==
  \/ table_view'.begin_window # table_view.begin_window
  \/ table_view'.end_window # table_view.end_window
  \/ table_view'.tree # table_view.tree

\* C31: restore_state with a snapshot (b, e, v) that is not the empty one
\* empties the window, sets max_window_size to e - b, fetches once, offset b
\* and limit e - b, and keeps v as previous_visible_item; v stays there
\* through every later call until the first insert that changes the window,
\* which clears it. restore_state with the empty snapshot changes nothing
\* and fetches nothing.
C31_RestoreTarget ==
  [][/\ called("restore_state") =>
          IF is_empty(saved)
            THEN table_view' = table_view /\ fetched' = <<>>
            ELSE /\ table_view'.tree = <<>>
                 /\ nb_view_items(table_view') = 0
                 /\ table_view'.max_window_size =
                      saved.end_window - saved.begin_window
                 /\ fetched' =
                      <<ViewTable(saved.begin_window,
                                  saved.end_window - saved.begin_window)>>
                 /\ table_view'.previous_visible_item = saved.visible_item
     /\ ( /\ table_view.previous_visible_item # NoInt
          /\ ~called("restore_state")
          /\ ~called("__init__") ) =>
          IF called("insert") /\ window_changes
            THEN table_view'.previous_visible_item = NoInt
            ELSE table_view'.previous_visible_item =
                   table_view.previous_visible_item
    ]_vars
C31_Witness ==
  /\ last.op = "insert"
  /\ trip.stage = "merged"
  /\ trip.state.visible_item # NoInt
  /\ trip.state.begin_window > 0
  /\ table_view.previous_visible_item = NoInt
  /\ table_view.begin_window = trip.state.begin_window
  /\ table_view.tree # <<>>
\* A no-op insert has left the target pending.
C31_WitnessPending ==
  /\ last.op = "insert"
  /\ table_view.previous_visible_item # NoInt
  /\ table_view.tree = <<>>

\* ------------------------------------------------ the requests of a view
\* C39: every ViewTable request a view has put, from lazy_load or from
\* restore_state, has offset >= 0 and limit >= 0, and the rows its Result
\* brings to insert are at most limit: assert len(rows) <= limit holds.
C39_BatchWithinLimit ==
  \A k \in 1..Len(chan) :
    chan[k].type = "ViewTable" =>
      /\ chan[k].offset >= 0
      /\ chan[k].limit >= 0
      /\ Len(select(chan[k].offset, chan[k].limit)) <= chan[k].limit
C39_Witness ==
  /\ Len(chan) = 2
  /\ chan[1].type = "ViewTable"
  /\ chan[2].type = "ViewTable"
  /\ chan[1].offset = 0
  /\ chan[1].limit = table_view.begin_window
  /\ chan[2].offset + chan[2].limit > TableSize
  /\ last.op = "lazy_load"

\* ------------------------------------------------ scrolling without refresh
\* The table is scrolled and its Results arrive in order; nothing refreshes,
\* so that every ViewTable request comes from lazy_load and no restore_state
\* is called.
NextScroll == App_lazy_load \/ App_on_tree_configure \/ on_sql_TableRows

SpecScroll == InitApp /\ [][NextScroll]_vars

\* The branch insert takes for the Result at the head of the channel.
arriving ==
  branch(table_view, select(Head(chan).offset, Head(chan).limit),
         Head(chan).offset)

\* C40: a batch lazy_load asked for is never merged by discarding the
\* window: with scroll events and the in-order arrival of their Results,
\* and no restore_state, each batch is a no-op or extends the window at one
\* edge.
C40_NeverReplaced ==
  [][(called("insert") /\ chan # <<>>) => arriving # "replace"]_vars

\* ------------------------------------------------ is_processing
\* The worker is between "_is_processing = True" and the finally clause that
\* resets it.
in_handler == wpc \in {"handle", "lock", "exec", "fetch", "clear"}

\* The Result of the request is in the results queue or has been taken.
result_pushed(request) ==
  \E k \in 1..Len(pushed) : pushed[k].request = request

\* C34: is_processing is true only while the worker is inside a request
\* handler: it is false while the worker waits for a request and after the
\* worker has ended, and it is reset before the Result of the request is
\* pushed, so that once that Result can be read is_processing is true only
\* for a later request.
C34_ProcessingOnlyInHandler ==
  is_processing =>
    /\ in_handler
    /\ wreq # NoRequest
    /\ ~result_pushed(wreq)
C34_Witness ==
  /\ is_processing
  /\ wpc = "fetch"
  /\ \E k \in 1..Len(pushed) :
       /\ pushed[k].request # NoRequest
       /\ pushed[k].request.id < wreq.id

\* ------------------------------------------------ is_closing
\* The worker has taken a CloseDB request and run() has returned.
closed_and_ended ==
  /\ wpc = "done"
  /\ \E k \in 1..Len(dequeued) : dequeued[k].type = "CloseDB"

\* C35: once the worker has processed CloseDB and has ended, is_closing is
\* false, however close() and the worker interleave.
C35_ClosedNotClosing == closed_and_ended => ~is_closing

\* ------------------------------------------------ the lock
\* The worker is about to enter a "with self._lock" block.
worker_acquires ==
  wpc \in {"open", "close_lock", "set_processing", "lock", "clear"}

\* The worker waits in _requests_q.get().
worker_gets == wpc = "get"

\* The worker has left the handler, by return or by exception, or run() has.
worker_left == wpc \in {"clear", "push", "get", "done", "crashed"}

\* The presentation thread waits in join(timeout=1.0).
main_joins == mpc = "join"

\* list_tables runs: the with block of _handle_LoadSchema.
in_list_tables == wpc = "exec" /\ wreq.type = "LoadSchema"

\* C38: no thread can deadlock on the lock: the worker never acquires the
\* lock while it holds it, never waits for a request while it holds it, and
\* has released it whenever it leaves a handler; the presentation thread
\* never joins the worker while it holds the lock; list_tables is only
\* called with the lock held.
C38_NoLockDeadlock ==
  /\ worker_acquires => lock # "worker"
  /\ worker_gets => lock # "worker"
  /\ worker_left => lock # "worker"
  /\ main_joins => lock # "main"
  /\ in_list_tables => lock = "worker"
C38_Witness ==
  /\ in_list_tables
  /\ main_joins
  /\ lock = "worker"
  /\ \E k \in 1..Len(pushed) : pushed[k].type = "Schema"

\* ------------------------------------------------ get_result
\* on_sql_result runs and goes past its first test, to self.sql.get_result().
reaches_get_result == notifs' = notifs - 1 /\ sql # None /\ ~is_closing

\* C36: whenever on_sql_result reaches get_result the results queue of the
\* current runner is not empty (get_nowait does not raise Empty), for any
\* opening, closing and reopening of databases and any interleaving of the
\* pushes of the worker with the notification callbacks.
C36_ResultWaiting == [][reaches_get_result => results_q # <<>>]_vars

\* ------------------------------------------------ views and dropped tables
\* Request.RunQuery with a DROP TABLE statement for the table.
DropTable == [type |-> "RunQuery", offset |-> 0, limit |-> 0]

\* Application.run_query_action: the user runs DROP TABLE on the table.
run_query_action ==
  /\ sql # None
  /\ Len(chan) < MaxPending
  /\ TableName \in db_tables
  /\ ~\E k \in 1..Len(chan) : chan[k] = DropTable
  /\ chan' = put(chan, DropTable)
  /\ last' = Last("run_query_action", FALSE, NamedTableView)
  /\ UNCHANGED <<table_view, saved, saved_rows, trip, fetched, before>>
  /\ UNCHANGED rvars /\ UNCHANGED avars /\ UNCHANGED evars
  /\ UNCHANGED fvars

\* The runner has executed the statement; Application.on_sql_QueryResult for
\* its Result, which has no rows: refresh_action.
on_sql_QueryResult ==
  /\ chan # <<>>
  /\ Head(chan) = DropTable
  /\ db_tables' = db_tables \ {TableName}
  /\ saved' = save_table_view_states
  /\ chan' = put(Tail(chan), LoadSchema)
  /\ before' = IF before = <<>>
                 THEN <<table_view.begin_window, table_view.end_window>>
                 ELSE before
  /\ last' = Last("refresh_action", FALSE, NamedTableView)
  /\ UNCHANGED <<table_view, saved_rows, trip, fetched>>
  /\ UNCHANGED rvars /\ UNCHANGED <<notifs, sql, table_views>>
  /\ UNCHANGED evars /\ UNCHANGED fvars

\* Application.close_db once safely_close_db has closed the runner:
\* unload_tables; the Results the runner has left are not looked at, since
\* on_sql_result returns at once without a runner.
App_close_db ==
  /\ sql # None
  /\ sql' = None
  /\ table_views' = {}
  /\ chan' = <<>>
  /\ last' = Last("close_db", FALSE, NamedTableView)
  /\ UNCHANGED <<table_view, saved, saved_rows, trip, fetched, before>>
  /\ UNCHANGED rvars /\ UNCHANGED <<notifs, db_tables>>
  /\ UNCHANGED evars /\ UNCHANGED fvars

NextTables ==
  \/ App_lazy_load \/ App_on_tree_configure \/ refresh_action
  \/ on_sql_Schema \/ on_sql_TableRows
  \/ run_query_action \/ on_sql_QueryResult \/ App_close_db

SpecTables == InitApp /\ [][NextTables]_vars

\* on_sql_TableRows runs for the Result at the head of the channel.
handles_TableRows ==
  /\ chan # <<>>
  /\ Head(chan).type = "ViewTable"
  /\ sql' # None
  /\ chan' = Tail(chan) \/ chan' = put(Tail(chan), LoadSchema)

\* C37: whenever on_sql_TableRows processes a TableRows Result, table_views
\* has a view for the table of its request, however the fetches of the views
\* interleave with schema reloads, table drops and the closing of the
\* database.
C37_ViewForTableRows ==
  [][handles_TableRows => TableName \in table_views]_vars

====
